---- MODULE Spec2Model ----
(***************************************************************************)
(* Real-time chat delivery subsystem.                                      *)
(*                                                                         *)
(* Server side: the WebSocket router of registerRoutes (connection         *)
(* registry activeConnections, the per-connection 'message' and 'close'    *)
(* handlers).  Client side: WebSocketService (connection manager, offline  *)
(* queue, delivery tracker).                                               *)
(*                                                                         *)
(* SpecServer drives the router with arbitrary inbound frames.             *)
(* SpecSweep drives the router's heartbeat sweep.                          *)
(* SpecClient drives one WebSocketService with an arbitrary peer.          *)
(* SpecQueue is that service within one instant, no timer coming due.     *)
(* SpecOffline is that service with no transport, across page reloads.    *)
(* SpecTyping is that service sending typing indicators.                   *)
(* SpecReconnect is its connection manager over a full reconnect series.   *)
(* SpecManager is its connection manager under arbitrary calls.            *)
(* SpecRecover is its reconnect state machine under fair scheduling.       *)
(* SpecSystem couples one WebSocketService to the router.                  *)
(***************************************************************************)
EXTENDS Integers, Sequences, FiniteSets, TLC

(***************************************************************************)
(* Bounds of the model.                                                    *)
(***************************************************************************)
MaxChat == 1         \* chat_message frames the router accepts in one run

Users == {1, 2}
Conns == {1, 2}        \* server-side connections, numbered in accept order
Groups == {1}

\* JavaScript's falsy values of the fields the router tests: undefined/0 for
\* ids, undefined/"" for strings, undefined for the messageId.
NoUser == 0
NoConn == 0
NoGroup == 0
NoText == ""
NoId == <<0, 0>>

\* messageId = `${Date.now()}-${random}-${userId}`: the unique part and the
\* trailing sender component.
MessageIds == {<<1, 1>>}
Contents == {"hi"}

VARIABLES
  \* ---- server (registerRoutes) ----
  readyState,         \* [Conns -> "none" | "open" | "closing" | "closed"]
  wsUserId,           \* ws.userId of each connection (NoUser = null)
  isAlive,            \* ws.isAlive of each connection
  activeConnections,  \* the registry Map: user id -> connection (NoConn = no entry)
  sent,               \* per connection, the frames passed to its send(), in order
  handlers,           \* chat_message handler invocations suspended at an await
  chatMessages,       \* rows written by storage.createChatMessage
  eventParticipants,  \* storage: member user ids of the group, in row order
  cipherThrows,       \* whether createCipheriv throws under the configured key
  lastAuth,           \* history: the connection that last authenticated as each user
  completed,          \* history: the chat_message handler invocations that ended
  marked,             \* history: connections a sweep found silent, and silent since
  reading,            \* mark_read handler invocations suspended at their await
  \* ---- client (WebSocketService) ----
  socket,             \* this.socket: a transport id, NoSocket = null
  phase,              \* per transport created: "none" | "connecting" | "open" |
                      \*   "failing" (error event due) | "closing" (close event due) | "closed"
  closeCode,          \* per transport: the code its close event will carry
  isConnecting,       \* this.isConnecting
  userId,             \* this.userId (NoUser = null)
  connectionStatus,   \* this.connectionStatus
  reconnectAttempts,  \* this.reconnectAttempts
  offlineQueue,       \* this.offlineQueue
  pendingMessages,    \* this.pendingMessages (a Map keyed by messageId)
  localStorage,       \* the item 'webSocketOfflineQueue'
  timers,             \* setTimeout/setInterval callbacks outstanding, in creation order
  now,                \* Date.now(), in ms
  nextMsg,            \* number of messageIds generated so far
  authPending,        \* transports with an auth frame sent and no auth_success yet
  hbPending,          \* transports with a heartbeat sent and no heartbeat_ack yet
  wire,               \* history: the auth and chat frames the client transmitted
  events,             \* history: messageIds of 'websocket-message-failed', in order
  receipted,          \* history: messageIds for which message_delivered arrived
  statusEvents,       \* history: the statuses the handler that ran last passed to
                      \*   setConnectionStatus ('websocket-status-change'), in order
  released,           \* history: the application called disconnect() and has not
                      \*   called connect() since
  reconnectFailed,    \* history: the number of 'websocket-reconnect-failed'
                      \*   notifications the handler that ran last dispatched
  errorEvents,        \* history: the number of 'websocket-error' notifications
                      \*   the handler that ran last dispatched
  readEvents          \* history: the number of 'websocket-message-read'
                      \*   notifications the handler that ran last dispatched

serverVars == <<readyState, wsUserId, isAlive, activeConnections, sent, handlers,
                chatMessages, eventParticipants, cipherThrows, lastAuth, completed, marked,
                reading>>

connVars == <<socket, phase, closeCode, isConnecting, userId, connectionStatus,
              reconnectAttempts>>
msgVars == <<offlineQueue, pendingMessages, localStorage, nextMsg>>
netVars == <<authPending, hbPending>>
histVars == <<wire, events, receipted>>
clientVars == <<connVars, msgVars, netVars, timers, now, histVars, statusEvents, released,
                reconnectFailed, errorEvents, readEvents>>

vars == <<serverVars, clientVars>>

(***************************************************************************)
(* Frames.                                                                 *)
(***************************************************************************)
\* An inbound frame as the router reads it (absent fields are falsy).
InFrame(type, uid, senderId, receiverId, chatGroupId, message, messageId) ==
  [type |-> type, userId |-> uid, senderId |-> senderId, receiverId |-> receiverId,
   chatGroupId |-> chatGroupId, message |-> message, messageId |-> messageId]

AuthFrames == {InFrame("auth", u, NoUser, NoUser, NoGroup, NoText, NoId) : u \in Users \cup {NoUser}}

ChatFrames ==
  {InFrame("chat_message", NoUser, s, r, g, m, i) :
     s \in {1, NoUser}, r \in {2, NoUser}, g \in Groups \cup {NoGroup},
     m \in Contents \cup {NoText}, i \in MessageIds \cup {NoId}}

\* An outbound frame of the router.  hid and via are history fields: the
\* handler invocation that sent it and the user id looked up in the registry
\* to find the connection (NoUser when sent on the handler's own connection).
OutFrame(type, messageId, content, hid, via) ==
  [type |-> type, messageId |-> messageId, content |-> content, hid |-> hid, via |-> via]

\* encryptMessage: iv ":" ciphertext, or the plaintext itself when the cipher throws.
encryptMessage(message, throws) ==
  IF throws THEN message ELSE "iv:" \o "aes(" \o message \o ")"

\* ws.send(frame) on connection c.
WsSend(log, c, frame) == [log EXCEPT ![c] = Append(@, frame)]

(***************************************************************************)
(* Server: connection lifecycle.                                           *)
(***************************************************************************)
ServerInit ==
  /\ readyState = [c \in Conns |-> "none"]
  /\ wsUserId = [c \in Conns |-> NoUser]
  /\ isAlive = [c \in Conns |-> FALSE]
  /\ activeConnections = [u \in Users |-> NoConn]
  /\ sent = [c \in Conns |-> <<>>]
  /\ handlers = {}
  /\ chatMessages = <<>>
  /\ eventParticipants = <<1, 2>>
  /\ cipherThrows \in BOOLEAN
  /\ lastAuth = [u \in Users |-> NoConn]
  /\ completed = {}
  /\ marked = [c \in Conns |-> FALSE]
  /\ reading = {}

\* wss.on('connection')
OnConnection(c) ==
  /\ readyState[c] = "none"
  /\ \A d \in Conns : d < c => readyState[d] # "none"
  /\ readyState' = [readyState EXCEPT ![c] = "open"]
  /\ isAlive' = [isAlive EXCEPT ![c] = TRUE]
  /\ wsUserId' = [wsUserId EXCEPT ![c] = NoUser]
  /\ UNCHANGED <<activeConnections, sent, handlers, chatMessages, eventParticipants, cipherThrows, marked,
                 lastAuth, completed>>
  /\ UNCHANGED reading

\* The transport goes down (peer close frame, network loss, terminate()):
\* readyState leaves OPEN before the 'close' event is emitted.
ConnectionLost(c) ==
  /\ readyState[c] = "open"
  /\ readyState' = [readyState EXCEPT ![c] = "closing"]
  /\ UNCHANGED <<wsUserId, isAlive, activeConnections, sent, handlers, chatMessages,
                 eventParticipants, cipherThrows, marked, lastAuth, completed>>
  /\ UNCHANGED reading

\* The registry after ws.on('close') of connection c.
RegistryAfterClose(reg, c, uid) ==
  IF uid # NoUser
    THEN [reg EXCEPT ![uid] = NoConn]
    ELSE IF \E u \in Users : reg[u] = c
           THEN LET u == CHOOSE u \in Users : reg[u] = c /\ \A v \in Users : reg[v] = c => u <= v
                IN  [reg EXCEPT ![u] = NoConn]
           ELSE reg

\* ws.on('close')
OnClose(c) ==
  /\ readyState[c] = "closing"
  /\ readyState' = [readyState EXCEPT ![c] = "closed"]
  /\ activeConnections' = RegistryAfterClose(activeConnections, c, wsUserId[c])
  /\ UNCHANGED <<wsUserId, isAlive, sent, handlers, chatMessages, eventParticipants, cipherThrows, marked,
                 lastAuth, completed>>
  /\ UNCHANGED reading

(***************************************************************************)
(* Server: ws.on('message').                                               *)
(***************************************************************************)
\* The chat_message frames the router has accepted so far.
nChat == Cardinality(handlers) + Cardinality(completed)

\* History: the number of the chat_message handler invocation that starts next.
NextHid == nChat + 1

\* Variant of OnAuth that keeps an existing registry entry (no overwrite).
OnAuthKeepFirst(c, data) ==
  /\ readyState[c] = "open"
  /\ data \in AuthFrames
  /\ IF data.userId # NoUser
       THEN /\ activeConnections' =
                 IF activeConnections[data.userId] = NoConn
                   THEN [activeConnections EXCEPT ![data.userId] = c]
                   ELSE activeConnections
            /\ wsUserId' = [wsUserId EXCEPT ![c] = data.userId]
            /\ sent' = WsSend(sent, c, OutFrame("auth_success", NoId, NoText, 0, NoUser))
            /\ lastAuth' = [lastAuth EXCEPT ![data.userId] = c]
       ELSE UNCHANGED <<activeConnections, wsUserId, sent, lastAuth>>
  /\ UNCHANGED <<readyState, isAlive, handlers, chatMessages, eventParticipants, cipherThrows, marked,
                 completed>>
  /\ UNCHANGED reading

\* case 'auth'.
OnAuth(c, data) ==
  /\ readyState[c] = "open"
  /\ data \in AuthFrames
  /\ IF data.userId # NoUser
       THEN /\ activeConnections' = [activeConnections EXCEPT ![data.userId] = c]
            /\ wsUserId' = [wsUserId EXCEPT ![c] = data.userId]
            /\ sent' = WsSend(sent, c, OutFrame("auth_success", NoId, NoText, 0, NoUser))
            /\ lastAuth' = [lastAuth EXCEPT ![data.userId] = c]
       ELSE UNCHANGED <<activeConnections, wsUserId, sent, lastAuth>>
  /\ UNCHANGED <<readyState, isAlive, handlers, chatMessages, eventParticipants, cipherThrows, marked,
                 completed>>
  /\ UNCHANGED reading

\* The guard of case 'chat_message'.
ChatMessageAccepted(data) ==
  /\ data.message # NoText
  /\ data.senderId # NoUser
  /\ (data.receiverId # NoUser \/ data.chatGroupId # NoGroup)

\* case 'chat_message', up to the first await (storage.createChatMessage).
OnChatMessage(c, data) ==
  /\ readyState[c] = "open"
  /\ data \in ChatFrames
  /\ IF ChatMessageAccepted(data)
       THEN handlers' = handlers \cup
                 {[hid |-> NextHid, ws |-> c, data |-> data, pc |-> "createChatMessage"]}
       ELSE UNCHANGED handlers
  /\ UNCHANGED <<readyState, wsUserId, isAlive, activeConnections, sent, chatMessages,
                 eventParticipants, cipherThrows, marked, lastAuth, completed>>
  /\ UNCHANGED reading

\* The row storage.createChatMessage is asked to write.
ChatRow(h) ==
  [senderId |-> h.data.senderId, receiverId |-> h.data.receiverId,
   chatGroupId |-> h.data.chatGroupId,
   content |-> encryptMessage(h.data.message, cipherThrows),
   messageId |-> h.data.messageId, hid |-> h.hid]

ServerGeneratedId == <<-1, 0>>

\* Variant of ResponseData that pushes the stored (encrypted) content.
ResponseDataStoredContent(h, via) ==
  OutFrame("chat_message",
           IF h.data.messageId # NoId THEN h.data.messageId ELSE ServerGeneratedId,
           encryptMessage(h.data.message, cipherThrows), h.hid, via)

\* responseData: the chat_message frame pushed to recipients.
ResponseData(h, via) ==
  OutFrame("chat_message",
           IF h.data.messageId # NoId THEN h.data.messageId ELSE ServerGeneratedId,
           h.data.message, h.hid, via)

\* activeConnections.get(u) is a connection whose readyState is OPEN.
Live(reg, rs, u) == reg[u] # NoConn /\ rs[reg[u]] = "open"

\* Variant of Broadcast that gives up at the first member without a live
\* connection.
RECURSIVE BroadcastUntilDead(_, _, _, _, _)
BroadcastUntilDead(log, reg, rs, members, h) ==
  IF members = <<>> THEN log
  ELSE LET member == Head(members)
       IN  IF Live(reg, rs, member)
             THEN BroadcastUntilDead(WsSend(log, reg[member], ResponseData(h, member)),
                                     reg, rs, Tail(members), h)
             ELSE log

\* groupMembers.forEach(member => ...): one frame to each member's live connection.
RECURSIVE Broadcast(_, _, _, _, _)
Broadcast(log, reg, rs, members, h) ==
  IF members = <<>> THEN log
  ELSE LET member == Head(members)
           next == IF Live(reg, rs, member)
                     THEN WsSend(log, reg[member], ResponseData(h, member))
                     ELSE log
       IN  Broadcast(next, reg, rs, Tail(members), h)

\* Variant of SendDirect without the readyState test.
SendDirectAnyState(log, reg, rs, h) ==
  IF h.data.receiverId # NoUser /\ reg[h.data.receiverId] # NoConn
    THEN WsSend(log, reg[h.data.receiverId], ResponseData(h, h.data.receiverId))
    ELSE log

\* else if (data.receiverId): one frame to the receiver's live connection.
SendDirect(log, reg, rs, h) ==
  IF h.data.receiverId # NoUser /\ Live(reg, rs, h.data.receiverId)
    THEN WsSend(log, reg[h.data.receiverId], ResponseData(h, h.data.receiverId))
    ELSE log

\* if (data.messageId) ws.send(message_delivered)
SendDeliveryReceipt(log, h) ==
  IF h.data.messageId # NoId
    THEN WsSend(log, h.ws, OutFrame("message_delivered", h.data.messageId, NoText, h.hid, NoUser))
    ELSE log

\* History record of a handler invocation that ended: whether its catch block
\* ran, and for each user the live connection the registry held at that moment.
Ended(h, threw) ==
  [hid |-> h.hid, ws |-> h.ws, data |-> h.data, threw |-> threw,
   live |-> [u \in Users |-> IF Live(activeConnections, readyState, u)
                               THEN activeConnections[u] ELSE NoConn]]

\* storage.createChatMessage resolves; a direct message runs to the end of the
\* case, a group message suspends again at storage.getEventParticipantsByEvent.
CreateChatMessageResolves(h) ==
  /\ h \in handlers
  /\ h.pc = "createChatMessage"
  /\ chatMessages' = Append(chatMessages, ChatRow(h))
  /\ IF h.data.chatGroupId # NoGroup
       THEN /\ handlers' = (handlers \ {h}) \cup {[h EXCEPT !.pc = "getEventParticipantsByEvent"]}
            /\ UNCHANGED <<sent, completed>>
       ELSE /\ handlers' = handlers \ {h}
            /\ sent' = SendDeliveryReceipt(SendDirect(sent, activeConnections, readyState, h), h)
            /\ completed' = completed \cup {Ended(h, FALSE)}
  /\ UNCHANGED <<readyState, wsUserId, isAlive, activeConnections, eventParticipants, cipherThrows, marked,
                 lastAuth>>
  /\ UNCHANGED reading

\* Variant of CreateChatMessageThrows that still sends the receipt.
CreateChatMessageThrowsWithReceipt(h) ==
  /\ h \in handlers
  /\ h.pc = "createChatMessage"
  /\ handlers' = handlers \ {h}
  /\ sent' = SendDeliveryReceipt(
               WsSend(sent, h.ws, OutFrame("error", NoId, "Failed to process message", h.hid, NoUser)), h)
  /\ completed' = completed \cup {Ended(h, TRUE)}
  /\ UNCHANGED <<readyState, wsUserId, isAlive, activeConnections, chatMessages,
                 eventParticipants, cipherThrows, marked, lastAuth>>
  /\ UNCHANGED reading

\* storage.createChatMessage rejects: the catch block of the handler.
CreateChatMessageThrows(h) ==
  /\ h \in handlers
  /\ h.pc = "createChatMessage"
  /\ handlers' = handlers \ {h}
  /\ sent' = WsSend(sent, h.ws, OutFrame("error", NoId, "Failed to process message", h.hid, NoUser))
  /\ completed' = completed \cup {Ended(h, TRUE)}
  /\ UNCHANGED <<readyState, wsUserId, isAlive, activeConnections, chatMessages,
                 eventParticipants, cipherThrows, marked, lastAuth>>
  /\ UNCHANGED reading

\* storage.getEventParticipantsByEvent resolves: fan-out, then the receipt.
GetEventParticipantsResolves(h) ==
  /\ h \in handlers
  /\ h.pc = "getEventParticipantsByEvent"
  /\ handlers' = handlers \ {h}
  /\ sent' = SendDeliveryReceipt(
               Broadcast(sent, activeConnections, readyState, eventParticipants, h), h)
  /\ completed' = completed \cup {Ended(h, FALSE)}
  /\ UNCHANGED <<readyState, wsUserId, isAlive, activeConnections, chatMessages,
                 eventParticipants, cipherThrows, marked, lastAuth>>
  /\ UNCHANGED reading

(***************************************************************************)
(* Server: case 'mark_read'.                                               *)
(***************************************************************************)
MarkReadFrames ==
  {InFrame("mark_read", u, sdr, NoUser, g, NoText, NoId) :
     u \in Users \cup {NoUser}, sdr \in Users \cup {NoUser}, g \in Groups \cup {NoGroup}}

\* case 'mark_read', up to the await (storage.markMessagesAsRead).
OnMarkRead(c, data) ==
  /\ readyState[c] = "open"
  /\ data \in MarkReadFrames
  /\ IF data.userId # NoUser /\ (data.chatGroupId # NoGroup \/ data.senderId # NoUser)
     THEN reading' = reading \cup {[ws |-> c, data |-> data]}
     ELSE UNCHANGED reading
  /\ UNCHANGED <<readyState, wsUserId, isAlive, activeConnections, sent, handlers,
                 chatMessages, eventParticipants, cipherThrows, lastAuth, completed, marked>>

\* The message_read frame of case 'mark_read': type, userId and timestamp; it
\* has no messageId.
MessageReadFrame(data) == OutFrame("message_read", NoId, NoText, 0, data.senderId)

\* storage.markMessagesAsRead resolves: the sender is notified.
MarkMessagesAsReadResolves(r) ==
  LET senderWs == IF r.data.senderId # NoUser THEN activeConnections[r.data.senderId]
                  ELSE NoConn
  IN /\ r \in reading
     /\ reading' = reading \ {r}
     /\ sent' = IF senderWs # NoConn /\ readyState[senderWs] = "open"
                THEN WsSend(sent, senderWs, MessageReadFrame(r.data))
                ELSE sent
     /\ UNCHANGED <<readyState, wsUserId, isAlive, activeConnections, handlers,
                    chatMessages, eventParticipants, cipherThrows, lastAuth, completed, marked>>

\* storage.markMessagesAsRead rejects: the catch block of the handler.
MarkMessagesAsReadThrows(r) ==
  /\ r \in reading
  /\ reading' = reading \ {r}
  /\ sent' = WsSend(sent, r.ws, OutFrame("error", NoId, "Failed to process message", 0, NoUser))
  /\ UNCHANGED <<readyState, wsUserId, isAlive, activeConnections, handlers,
                 chatMessages, eventParticipants, cipherThrows, lastAuth, completed, marked>>

\* The peer of c has sent no auth frame yet: a WebSocketService sends one per
\* transport, in onOpen.
FirstAuth(c) == wsUserId[c] = NoUser

ServerNext ==
  \/ (\E c \in Conns : OnConnection(c)) /\ UNCHANGED clientVars
  \/ (\E c \in Conns : ConnectionLost(c)) /\ UNCHANGED clientVars
  \/ (\E c \in Conns : OnClose(c)) /\ UNCHANGED clientVars
  \/ (\E c \in Conns, data \in AuthFrames : FirstAuth(c) /\ OnAuth(c, data))
       /\ UNCHANGED clientVars
  \/ (nChat < MaxChat /\ \E c \in Conns, data \in ChatFrames : OnChatMessage(c, data))
       /\ UNCHANGED clientVars
  \/ (\E h \in handlers : CreateChatMessageResolves(h)) /\ UNCHANGED clientVars
  \/ (\E h \in handlers : CreateChatMessageThrows(h)) /\ UNCHANGED clientVars
  \/ (\E h \in handlers : GetEventParticipantsResolves(h)) /\ UNCHANGED clientVars

(***************************************************************************)
(* Server: the heartbeat sweep and the heartbeat cases of ws.on('message').*)
(***************************************************************************)
MaxSweeps == 2       \* heartbeat frames the sweep sends one connection in one run
MaxHeartbeats == 1   \* heartbeat frames one connection's peer sends in one run

\* wss.clients: the connections accepted and not yet closed.
Tracked(c) == readyState[c] \in {"open", "closing"}

HeartbeatFrame == OutFrame("heartbeat", NoId, NoText, 0, NoUser)
HeartbeatAckFrame == OutFrame("heartbeat_ack", NoId, NoText, 0, NoUser)

Heartbeats(c) == Len(SelectSeq(sent[c], LAMBDA f : f.type = "heartbeat"))
HeartbeatAcks(c) == Len(SelectSeq(sent[c], LAMBDA f : f.type = "heartbeat_ack"))

\* The callback of setInterval(..., HEARTBEAT_INTERVAL): terminate() takes a
\* connection out of OPEN, its 'close' event follows.
Sweep ==
  /\ readyState' = [c \in Conns |->
                      IF readyState[c] = "open" /\ ~isAlive[c] THEN "closing"
                      ELSE readyState[c]]
  /\ isAlive' = [c \in Conns |-> IF Tracked(c) THEN FALSE ELSE isAlive[c]]
  /\ sent' = [c \in Conns |->
                IF readyState[c] = "open" /\ isAlive[c]
                THEN Append(sent[c], HeartbeatFrame)
                ELSE sent[c]]
  /\ marked' = [c \in Conns |-> IF Tracked(c) THEN TRUE ELSE marked[c]]
  /\ UNCHANGED <<wsUserId, activeConnections, handlers, chatMessages, eventParticipants,
                 cipherThrows, lastAuth, completed>>
  /\ UNCHANGED reading

\* Variant of OnHeartbeatAck that leaves ws.isAlive alone.
OnHeartbeatAckIgnored(c) ==
  /\ readyState[c] = "open"
  /\ marked' = [marked EXCEPT ![c] = FALSE]
  /\ UNCHANGED <<readyState, wsUserId, isAlive, activeConnections, sent, handlers,
                 chatMessages, eventParticipants, cipherThrows, lastAuth, completed>>
  /\ UNCHANGED reading

\* ws.on('message'), case 'heartbeat_ack'
OnHeartbeatAck(c) ==
  /\ readyState[c] = "open"
  /\ isAlive' = [isAlive EXCEPT ![c] = TRUE]
  /\ marked' = [marked EXCEPT ![c] = FALSE]
  /\ UNCHANGED <<readyState, wsUserId, activeConnections, sent, handlers, chatMessages,
                 eventParticipants, cipherThrows, lastAuth, completed>>
  /\ UNCHANGED reading

\* ws.on('message'), case 'heartbeat'
OnHeartbeat(c) ==
  /\ readyState[c] = "open"
  /\ isAlive' = [isAlive EXCEPT ![c] = TRUE]
  /\ sent' = WsSend(sent, c, HeartbeatAckFrame)
  /\ marked' = [marked EXCEPT ![c] = FALSE]
  /\ UNCHANGED <<readyState, wsUserId, activeConnections, handlers, chatMessages,
                 eventParticipants, cipherThrows, lastAuth, completed>>
  /\ UNCHANGED reading

SweepNext ==
  \/ (\E c \in Conns : OnConnection(c)) /\ UNCHANGED clientVars
  \/ (\E c \in Conns : ConnectionLost(c)) /\ UNCHANGED clientVars
  \/ (\E c \in Conns : OnClose(c)) /\ UNCHANGED clientVars
  \/ ((\A c \in Conns : Heartbeats(c) < MaxSweeps) /\ Sweep) /\ UNCHANGED clientVars
  \/ (\E c \in Conns : HeartbeatAcks(c) < MaxHeartbeats /\ OnHeartbeat(c))
       /\ UNCHANGED clientVars
  \/ (\E c \in Conns : OnHeartbeatAck(c)) /\ UNCHANGED clientVars

(***************************************************************************)
(* The client: class WebSocketService.                                     *)
(*                                                                         *)
(* Time is the value of Date.now() in ms; it advances only to the due time *)
(* of the next outstanding timer, so calls and transport events happen at  *)
(* instants where some timer was set or fired. Every handler runs to       *)
(* completion (one JavaScript task) and is one action.                     *)
(***************************************************************************)
MaxMsgs == 1         \* sendChatMessage calls in one run of SpecClient
MaxQueued == 2       \* sendChatMessage calls in one run of SpecQueue

Sockets == 1..6      \* transports, numbered in the order the client creates them
FirstSockets == {1, 2}
NoSocket == 0
ClientUsers == {1}
ClientRecipients == {NoUser}
ClientGroups == {1}

reconnectInterval == 5000
maxReconnectAttempts == 5
MaxReconnectDelay == 60000
HeartbeatPeriod == 30000
HeartbeatTimeoutDelay == 10000
CheckDelay == 5000
MaxAttempts == 3
MaxAge == 86400000
MaxStored == 100
NormalClosure == 1000
HeartbeatCloseCode == 4000
AbnormalClosure == 1006   \* close event of a transport that was not closed cleanly
NoStatusCode == 1005      \* close event after close() without a code

\* A run lasts as long as the retry protocol of a message sent at its start.
Horizon == MaxAttempts * CheckDelay

\* Outcomes of WebSocket.send on an OPEN transport: a browser buffers the
\* frame and does not throw.
SendOutcomes == {FALSE}

Min(a, b) == IF a < b THEN a ELSE b

RECURSIVE Pow(_, _)
Pow(b, n) == IF n = 0 THEN 1 ELSE b * Pow(b, n - 1)

\* min(reconnectInterval * 1.5^(n-1), 60000), which setTimeout truncates to
\* whole milliseconds.
ReconnectDelay(n) ==
  Min((reconnectInterval * Pow(3, n - 1)) \div Pow(2, n - 1), MaxReconnectDelay)

\* The value of reconnectDelay for the n-th attempt, in half milliseconds:
\* min(reconnectInterval * 1.5^(n-1), 60000), exact up to the fifth attempt.
ReconnectDelayHalves(n) ==
  Min((2 * reconnectInterval * Pow(3, n - 1)) \div Pow(2, n - 1), 2 * MaxReconnectDelay)

MapSet(m, k, v) == [x \in DOMAIN m \cup {k} |-> IF x = k THEN v ELSE m[x]]
MapDelete(m, k) == [x \in DOMAIN m \ {k} |-> m[x]]
EmptyMap == [x \in {} |-> 0]

Timer(kind, id, due) == [kind |-> kind, id |-> id, due |-> due]
setTimeout(ts, kind, id, delay) == Append(ts, Timer(kind, id, now + delay))

heartbeatInterval == \E i \in DOMAIN timers : timers[i].kind = "sendHeartbeat"
heartbeatTimeout == \E i \in DOMAIN timers : timers[i].kind = "heartbeatTimeout"

clearHeartbeat(ts) ==
  SelectSeq(ts, LAMBDA t : t.kind \notin {"sendHeartbeat", "heartbeatTimeout"})

clearHeartbeatTimeout(ts) == SelectSeq(ts, LAMBDA t : t.kind # "heartbeatTimeout")

\* this.socket && this.socket.readyState === WebSocket.OPEN
SocketOpen(sock, ph) == sock # NoSocket /\ ph[sock] = "open"

\* A frame passed to send: the transport, the method that sent it and the time.
Frame(sock, payload, via) ==
  [sock |-> sock, type |-> payload.type, messageId |-> payload.messageId,
   payload |-> payload, via |-> via, at |-> now]

\* authPayload of onOpen (it has no messageId).
AuthPayload == [type |-> "auth", userId |-> userId, messageId |-> NoId]

generateMessageId == <<nextMsg + 1, userId>>

Payload(messageId, message, recipientId, chatGroupId) ==
  [type |-> "chat_message", messageId |-> messageId, senderId |-> userId,
   receiverId |-> recipientId, chatGroupId |-> chatGroupId, message |-> message,
   timestamp |-> now]

QueuedMessage(payload, attempts) ==
  [payload |-> payload, attempts |-> attempts, timestamp |-> now]

saveOfflineQueue(queue) ==
  LET recentMessages == SelectSeq(queue, LAMBDA msg : msg.timestamp > now - MaxAge)
      chat == SelectSeq(recentMessages, LAMBDA msg : msg.payload.type = "chat_message")
  IN SubSeq(chat, 1, Min(Len(chat), MaxStored))

\* Variant: an entry exactly 24 hours old is still loaded.
loadOfflineQueueInclusive(stored) ==
  SelectSeq(stored, LAMBDA msg : msg.timestamp >= now - MaxAge)

loadOfflineQueue(stored) == SelectSeq(stored, LAMBDA msg : msg.timestamp > now - MaxAge)

\* WebSocket.close(code) on transport s: no effect unless s is connecting or
\* open; closing a connecting transport fails it.
CloseSocket(pc, s, code) ==
  IF pc.phase[s] = "open"
  THEN [phase |-> [pc.phase EXCEPT ![s] = "closing"],
        closeCode |-> [pc.closeCode EXCEPT ![s] = code]]
  ELSE IF pc.phase[s] = "connecting"
  THEN [phase |-> [pc.phase EXCEPT ![s] = "closing"],
        closeCode |-> [pc.closeCode EXCEPT ![s] = AbnormalClosure]]
  ELSE pc

\* The service as its constructor leaves it, at time t, over the queue an
\* earlier session stored.
ClientStart(stored, t) ==
  /\ now = t
  /\ localStorage = stored
  /\ socket = NoSocket
  /\ phase = [s \in Sockets |-> "none"]
  /\ closeCode = [s \in Sockets |-> 0]
  /\ isConnecting = FALSE
  /\ userId = NoUser
  /\ connectionStatus = "disconnected"
  /\ reconnectAttempts = 0
  /\ offlineQueue = loadOfflineQueue(localStorage)
  /\ pendingMessages = EmptyMap
  /\ nextMsg = 0
  /\ authPending = {}
  /\ hbPending = {}
  /\ timers = <<>>
  /\ wire = <<>>
  /\ events = <<>>
  /\ receipted = {}
  /\ statusEvents = <<>>
  /\ released = FALSE
  /\ reconnectFailed = 0
  /\ errorEvents = 0
  /\ readEvents = 0

ClientInit == ClientStart(<<>>, 0)

\* The transport `new WebSocket(wsUrl)` returns: the lowest id not yet used.
NewSocket == CHOOSE s \in Sockets : phase[s] = "none" /\ \A d \in Sockets : d < s => phase[d] # "none"

\* Variant of connect without the isConnecting guard.
connectUnguarded(u) ==
  IF SocketOpen(socket, phase)
  THEN UNCHANGED connVars /\ statusEvents' = <<>>
  ELSE /\ \E s \in Sockets : phase[s] = "none"
       /\ isConnecting' = TRUE
       /\ userId' = u
       /\ connectionStatus' = "connecting"
       /\ statusEvents' = <<"connecting">>
       /\ socket' = NewSocket
       /\ phase' = [phase EXCEPT ![NewSocket] = "connecting"]
       /\ UNCHANGED <<closeCode, reconnectAttempts>>

\* connect(userId), called by the application or by the reconnect timer. The
\* URL is well formed, so the constructor does not throw.
connect(u) ==
  IF isConnecting \/ SocketOpen(socket, phase)
  THEN UNCHANGED connVars /\ statusEvents' = <<>>
  ELSE /\ \E s \in Sockets : phase[s] = "none"
       /\ isConnecting' = TRUE
       /\ userId' = u
       /\ connectionStatus' = "connecting"
       /\ statusEvents' = <<"connecting">>
       /\ socket' = NewSocket
       /\ phase' = [phase EXCEPT ![NewSocket] = "connecting"]
       /\ UNCHANGED <<closeCode, reconnectAttempts>>

\* connect(userId) when the WebSocket constructor throws: the catch block.
\* this.socket keeps its value.
connectThrows(u) ==
  /\ ~(isConnecting \/ SocketOpen(socket, phase))
  /\ isConnecting' = FALSE
  /\ userId' = u
  /\ connectionStatus' = "error"
  /\ statusEvents' = <<"connecting", "error">>
  /\ UNCHANGED <<socket, phase, closeCode, reconnectAttempts>>

\* connect() returns at once or the transport it creates is one of S.
Creates(S) ==
  isConnecting \/ SocketOpen(socket, phase) \/ \E s \in S : phase[s] = "none"

Connect(u) ==
  /\ connect(u)
  /\ UNCHANGED <<msgVars, netVars, timers, now, histVars>>
  /\ released' = FALSE
  /\ errorEvents' = 0
  /\ readEvents' = 0
  /\ reconnectFailed' = 0

\* The application calls connect(u) and new WebSocket throws.
ConnectFails(u) ==
  /\ connectThrows(u)
  /\ UNCHANGED <<msgVars, netVars, timers, now, histVars>>
  /\ released' = FALSE
  /\ errorEvents' = 1
  /\ readEvents' = 0
  /\ reconnectFailed' = 0

Disconnect ==
  LET pc == IF socket # NoSocket
            THEN CloseSocket([phase |-> phase, closeCode |-> closeCode], socket, NormalClosure)
            ELSE [phase |-> phase, closeCode |-> closeCode]
  IN /\ timers' = clearHeartbeat(timers)
     /\ phase' = pc.phase
     /\ closeCode' = pc.closeCode
     /\ socket' = NoSocket
     /\ connectionStatus' = "disconnected"
     /\ UNCHANGED <<isConnecting, userId, reconnectAttempts>>
     /\ UNCHANGED <<msgVars, netVars, now, histVars>>
     /\ statusEvents' = <<"disconnected">>
     /\ released' = TRUE
     /\ errorEvents' = 0
     /\ readEvents' = 0
     /\ reconnectFailed' = 0

\* onOpen: the 'open' event of transport s. The auth frame goes to
\* this.socket; send throws on a CONNECTING transport and drops the frame
\* on a CLOSING or CLOSED one.
OnOpen(s) ==
  /\ phase[s] = "connecting"
  /\ phase' = [phase EXCEPT ![s] = "open"]
  /\ reconnectAttempts' = 0
  /\ isConnecting' = FALSE
  /\ connectionStatus' = "connected"
  /\ IF userId # NoUser /\ SocketOpen(socket, phase')
     THEN /\ wire' = Append(wire, Frame(socket, AuthPayload, "onOpen"))
          /\ authPending' = authPending \cup {socket}
     ELSE UNCHANGED <<wire, authPending>>
  /\ UNCHANGED <<socket, closeCode, userId, hbPending, events, receipted>>
  /\ UNCHANGED <<msgVars, timers, now>>
  /\ statusEvents' = <<"connected">>
  /\ UNCHANGED released
  /\ errorEvents' = 0
  /\ readEvents' = 0
  /\ reconnectFailed' = 0

\* Variant of attemptReconnect whose backoff exponent is the attempt number.
attemptReconnectLate(ts) ==
  IF reconnectAttempts >= maxReconnectAttempts
  THEN /\ timers' = ts
       /\ reconnectFailed' = 1
       /\ UNCHANGED reconnectAttempts
  ELSE /\ reconnectAttempts' = reconnectAttempts + 1
       /\ reconnectFailed' = 0
       /\ timers' = setTimeout(ts, "reconnect", NoId, ReconnectDelay(reconnectAttempts + 2))

\* Variant of attemptReconnect that gives up without the notification.
attemptReconnectSilent(ts) ==
  IF reconnectAttempts >= maxReconnectAttempts
  THEN /\ timers' = ts
       /\ reconnectFailed' = 0
       /\ UNCHANGED reconnectAttempts
  ELSE /\ reconnectAttempts' = reconnectAttempts + 1
       /\ reconnectFailed' = 0
       /\ timers' = setTimeout(ts, "reconnect", NoId, ReconnectDelay(reconnectAttempts + 1))

\* attemptReconnect
attemptReconnect(ts) ==
  IF reconnectAttempts >= maxReconnectAttempts
  THEN /\ timers' = ts
       /\ reconnectFailed' = 1
       /\ UNCHANGED reconnectAttempts
  ELSE /\ reconnectAttempts' = reconnectAttempts + 1
       /\ reconnectFailed' = 0
       /\ timers' = setTimeout(ts, "reconnect", NoId, ReconnectDelay(reconnectAttempts + 1))

\* Variant of CloseEvent that calls attemptReconnect whatever the code.
CloseEventAlwaysReconnects(s, code, err) ==
  LET closed == [phase |-> [phase EXCEPT ![s] = "closed"],
                 closeCode |-> [closeCode EXCEPT ![s] = 0]]
      pc == IF err /\ socket # NoSocket
            THEN CloseSocket(closed, socket, NoStatusCode)
            ELSE closed
  IN /\ phase' = pc.phase
     /\ closeCode' = pc.closeCode
     /\ socket' = NoSocket
     /\ isConnecting' = FALSE
     /\ connectionStatus' = "disconnected"
     /\ attemptReconnect(clearHeartbeat(timers))
     /\ authPending' = authPending \ {s}
     /\ hbPending' = hbPending \ {s}
     /\ UNCHANGED <<userId, msgVars, now, histVars>>
     /\ statusEvents' = (IF err THEN <<"error">> ELSE <<>>) \o <<"disconnected">>
     /\ UNCHANGED released
     /\ errorEvents' = IF err THEN 1 ELSE 0
     /\ readEvents' = 0

\* The 'close' event of transport s with the given code, preceded in the
\* same task by its 'error' event when err: onError, then onClose.
CloseEvent(s, code, err) ==
  LET closed == [phase |-> [phase EXCEPT ![s] = "closed"],
                 closeCode |-> [closeCode EXCEPT ![s] = 0]]
      pc == IF err /\ socket # NoSocket
            THEN CloseSocket(closed, socket, NoStatusCode)
            ELSE closed
  IN /\ phase' = pc.phase
     /\ closeCode' = pc.closeCode
     /\ socket' = NoSocket
     /\ isConnecting' = FALSE
     /\ connectionStatus' = "disconnected"
     /\ IF code # NormalClosure
        THEN attemptReconnect(clearHeartbeat(timers))
        ELSE /\ timers' = clearHeartbeat(timers)
             /\ reconnectFailed' = 0
             /\ UNCHANGED reconnectAttempts
     /\ authPending' = authPending \ {s}
     /\ hbPending' = hbPending \ {s}
     /\ UNCHANGED <<userId, msgVars, now, histVars>>
     /\ statusEvents' = (IF err THEN <<"error">> ELSE <<>>) \o <<"disconnected">>
     /\ UNCHANGED released
     /\ errorEvents' = IF err THEN 1 ELSE 0
     /\ readEvents' = 0

\* A transport the client closed finishes closing. Closing a transport that
\* was still connecting fails it, which fires 'error' before 'close'.
SocketCloses(s) ==
  /\ phase[s] = "closing"
  /\ CloseEvent(s, closeCode[s], closeCode[s] = AbnormalClosure)

\* A connecting or open transport is lost: the handshake fails or the
\* connection drops. A failed handshake always fires 'error'.
TransportLost(s, err) ==
  /\ phase[s] \in {"connecting", "open"}
  /\ phase[s] = "connecting" => err
  /\ CloseEvent(s, AbnormalClosure, err)

\* The message half of the service as one value, threaded through the
\* private methods a handler calls.
MsgState(queue, pending, stored, ts, w, ev) ==
  [offlineQueue |-> queue, pendingMessages |-> pending, localStorage |-> stored,
   timers |-> ts, wire |-> w, events |-> ev]

Current(ts) == MsgState(offlineQueue, pendingMessages, localStorage, ts, wire, events)

Commit(m) ==
  /\ offlineQueue' = m.offlineQueue
  /\ pendingMessages' = m.pendingMessages
  /\ localStorage' = m.localStorage
  /\ timers' = m.timers
  /\ wire' = m.wire
  /\ events' = m.events

\* Variant of queueMessage that puts the new entry at the head of the queue.
queueMessageAtFront(m, payload) ==
  IF payload.type \in {"heartbeat", "heartbeat_ack"}
  THEN m
  ELSE LET queue == <<QueuedMessage(payload, 0)>> \o m.offlineQueue
       IN [m EXCEPT !.offlineQueue = queue, !.localStorage = saveOfflineQueue(queue)]

\* queueMessage: push at the tail, then saveOfflineQueue.
queueMessage(m, payload) ==
  IF payload.type \in {"heartbeat", "heartbeat_ack"}
  THEN m
  ELSE LET queue == Append(m.offlineQueue, QueuedMessage(payload, 0))
       IN [m EXCEPT !.offlineQueue = queue, !.localStorage = saveOfflineQueue(queue)]

\* Registers a Pending Delivery entry with attempts = 1 and schedules its check.
TrackDelivery(m, payload) ==
  [m EXCEPT !.pendingMessages = MapSet(@, payload.messageId, QueuedMessage(payload, 1)),
            !.timers = setTimeout(@, "checkMessageDelivery", payload.messageId, CheckDelay)]

Transmit(m, payload, via) ==
  [m EXCEPT !.wire = Append(@, Frame(socket, payload, via))]

sendOrQueueMessage(m, payload, throws) ==
  IF SocketOpen(socket, phase)
  THEN LET tracked == IF payload.type = "chat_message" /\ payload.messageId # NoId
                      THEN TrackDelivery(m, payload)
                      ELSE m
       IN IF throws THEN queueMessage(tracked, payload) ELSE Transmit(tracked, payload, "sendOrQueueMessage")
  ELSE queueMessage(m, payload)

SendChatMessage(message, recipientId, chatGroupId, throws) ==
  /\ nextMsg' = nextMsg + 1
  /\ Commit(sendOrQueueMessage(Current(timers),
              Payload(generateMessageId, message, recipientId, chatGroupId), throws))
  /\ UNCHANGED <<connVars, netVars, now, receipted>>
  /\ statusEvents' = <<>>
  /\ UNCHANGED released
  /\ errorEvents' = 0
  /\ readEvents' = 0
  /\ reconnectFailed' = 0

\* The while loop of processOfflineQueue; throwAt is the position, counted
\* from the entry at the head when the call starts, whose send throws (0: none).
RECURSIVE FlushLoop(_, _, _)

\* Variant of FlushLoop that puts the entry whose send throws at the back.
FlushLoopAppends(m, k, throwAt) ==
  IF m.offlineQueue = <<>>
  THEN m
  ELSE LET item == Head(m.offlineQueue)
           fresh == IF item.payload.type = "chat_message"
                    THEN [item EXCEPT !.payload.timestamp = now]
                    ELSE item
           rest == [m EXCEPT !.offlineQueue = Tail(@)]
       IN IF k = throwAt
          THEN [m EXCEPT !.offlineQueue = Tail(@) \o <<fresh>>]
          ELSE LET out == Transmit(rest, fresh.payload, "processOfflineQueue")
                   tracked == IF fresh.payload.type = "chat_message" /\ fresh.payload.messageId # NoId
                              THEN TrackDelivery(out, fresh.payload)
                              ELSE out
               IN FlushLoop(tracked, k + 1, throwAt)

FlushLoop(m, k, throwAt) ==
  IF m.offlineQueue = <<>>
  THEN m
  ELSE LET item == Head(m.offlineQueue)
           fresh == IF item.payload.type = "chat_message"
                    THEN [item EXCEPT !.payload.timestamp = now]
                    ELSE item
           rest == [m EXCEPT !.offlineQueue = Tail(@)]
       IN IF k = throwAt
          THEN [m EXCEPT !.offlineQueue = <<fresh>> \o Tail(@)]
          ELSE LET out == Transmit(rest, fresh.payload, "processOfflineQueue")
                   tracked == IF fresh.payload.type = "chat_message" /\ fresh.payload.messageId # NoId
                              THEN TrackDelivery(out, fresh.payload)
                              ELSE out
               IN FlushLoop(tracked, k + 1, throwAt)

processOfflineQueue(m, throwAt) ==
  IF ~SocketOpen(socket, phase)
  THEN m
  ELSE LET flushed == FlushLoop(m, 1, throwAt)
       IN [flushed EXCEPT !.localStorage = saveOfflineQueue(flushed.offlineQueue)]

\* The id of a heartbeat timer is history: the transport that was this.socket
\* when the timer was set (the callbacks read this.socket when they run).
ArmedFor(sock) == <<sock, NoUser>>

\* sendHeartbeat: the heartbeat frame goes out and its timeout is armed.
sendHeartbeat(ts) ==
  IF SocketOpen(socket, phase)
  THEN setTimeout(ts, "heartbeatTimeout", ArmedFor(socket), HeartbeatTimeoutDelay)
  ELSE ts

startHeartbeat(ts) ==
  sendHeartbeat(setTimeout(clearHeartbeat(ts), "sendHeartbeat", ArmedFor(socket),
                           HeartbeatPeriod))

\* A browser fires 'message' events only while readyState is OPEN.
Receiving(s) == phase[s] = "open"

\* Texts JSON.parse rejects with a SyntaxError.
Unparseable == {"", "{", "hello"}

\* Variant of RecvUnparseable that gives up the transport.
RecvUnparseableCloses(s, data) ==
  LET pc == CloseSocket([phase |-> phase, closeCode |-> closeCode], s, NoStatusCode)
  IN /\ Receiving(s)
     /\ data \in Unparseable
     /\ phase' = pc.phase
     /\ closeCode' = pc.closeCode
     /\ errorEvents' = 1
     /\ readEvents' = 0
     /\ UNCHANGED <<socket, isConnecting, userId, connectionStatus, reconnectAttempts>>
     /\ UNCHANGED <<msgVars, netVars, timers, now, histVars, released>>
     /\ statusEvents' = <<>>
     /\ reconnectFailed' = 0

\* onMessage with event.data that JSON.parse rejects: the catch block.
RecvUnparseable(s, data) ==
  /\ Receiving(s)
  /\ data \in Unparseable
  /\ errorEvents' = 1
  /\ readEvents' = 0
  /\ UNCHANGED <<connVars, msgVars, netVars, timers, now, histVars, released>>
  /\ statusEvents' = <<>>
  /\ reconnectFailed' = 0

\* onMessage, case 'message_read': the notification is dispatched when the
\* frame has a messageId.
RecvMessageRead(s, frame) ==
  /\ Receiving(s)
  /\ frame.type = "message_read"
  /\ readEvents' = IF frame.messageId # NoId THEN 1 ELSE 0
  /\ UNCHANGED <<connVars, msgVars, netVars, timers, now, histVars, released>>
  /\ statusEvents' = <<>>
  /\ reconnectFailed' = 0
  /\ errorEvents' = 0

\* onMessage, case 'auth_success'
RecvAuthSuccess(s, throwAt) ==
  /\ Receiving(s)
  /\ s \in authPending
  /\ authPending' = authPending \ {s}
  /\ hbPending' = IF SocketOpen(socket, phase) THEN hbPending \cup {socket} ELSE hbPending
  /\ Commit(processOfflineQueue(Current(startHeartbeat(timers)), throwAt))
  /\ UNCHANGED <<connVars, nextMsg, now, receipted>>
  /\ statusEvents' = <<>>
  /\ UNCHANGED released
  /\ errorEvents' = 0
  /\ readEvents' = 0
  /\ reconnectFailed' = 0

Transmitted(s, messageId) ==
  \E i \in DOMAIN wire : wire[i].sock = s /\ wire[i].type = "chat_message"
                         /\ wire[i].messageId = messageId

TransmittedIds == {wire[i].messageId : i \in DOMAIN wire} \ {NoId}

\* Variant of MessageDelivered that creates an entry for an id that has none.
MessageDeliveredToggles(pending, messageId) ==
  IF messageId \in DOMAIN pending
  THEN MapDelete(pending, messageId)
  ELSE MapSet(pending, messageId, [payload |-> NoId, attempts |-> 0, timestamp |-> now])

\* this.pendingMessages.delete(data.messageId)
MessageDelivered(pending, messageId) == MapDelete(pending, messageId)

\* onMessage, case 'message_delivered': the router answers each chat frame
\* it got on s with a receipt carrying the frame's messageId.
RecvMessageDelivered(s, messageId) ==
  /\ Receiving(s)
  /\ Transmitted(s, messageId)
  /\ pendingMessages' = MessageDelivered(pendingMessages, messageId)
  /\ receipted' = receipted \cup {messageId}
  /\ UNCHANGED <<connVars, offlineQueue, localStorage, nextMsg, netVars, timers, now,
                 wire, events>>
  /\ statusEvents' = <<>>
  /\ UNCHANGED released
  /\ errorEvents' = 0
  /\ readEvents' = 0
  /\ reconnectFailed' = 0

\* onMessage, case 'heartbeat_ack'
RecvHeartbeatAck(s) ==
  /\ Receiving(s)
  /\ s \in hbPending
  /\ hbPending' = hbPending \ {s}
  /\ timers' = clearHeartbeatTimeout(timers)
  /\ UNCHANGED <<connVars, msgVars, authPending, now, histVars>>
  /\ statusEvents' = <<>>
  /\ UNCHANGED released
  /\ errorEvents' = 0
  /\ readEvents' = 0
  /\ reconnectFailed' = 0

\* The timer the event loop runs next: the earliest due, the oldest among
\* those due at the same instant.
NextTimer ==
  CHOOSE i \in DOMAIN timers :
    \A j \in DOMAIN timers : timers[i].due < timers[j].due
                             \/ (timers[i].due = timers[j].due /\ i <= j)

Due(kind) ==
  /\ timers # <<>>
  /\ timers[NextTimer].kind = kind
  /\ timers[NextTimer].due <= now

Remove(ts, i) == SubSeq(ts, 1, i - 1) \o SubSeq(ts, i + 1, Len(ts))

\* Variant of checkMessageDelivery without the limit of 3 attempts.
checkMessageDeliveryNoCap(m, messageId, throws) ==
  IF messageId \notin DOMAIN m.pendingMessages
  THEN m
  ELSE LET pendingMessage == [m.pendingMessages[messageId] EXCEPT !.attempts = @ + 1]
           counted == [m EXCEPT !.pendingMessages = MapSet(@, messageId, pendingMessage)]
       IN IF SocketOpen(socket, phase)
          THEN [Transmit(counted, pendingMessage.payload, "checkMessageDelivery") EXCEPT
                  !.timers = setTimeout(@, "checkMessageDelivery", messageId, CheckDelay)]
          ELSE [queueMessage(counted, pendingMessage.payload) EXCEPT
                  !.pendingMessages = MapDelete(@, messageId)]

\* Variant of checkMessageDelivery that keeps the Pending Delivery entry of a
\* message it queues.
checkMessageDeliveryKeepsPending(m, messageId, throws) ==
  IF messageId \notin DOMAIN m.pendingMessages
  THEN m
  ELSE IF m.pendingMessages[messageId].attempts >= MaxAttempts
  THEN [m EXCEPT !.pendingMessages = MapDelete(@, messageId),
                 !.events = Append(@, messageId)]
  ELSE LET pendingMessage == [m.pendingMessages[messageId] EXCEPT !.attempts = @ + 1]
           counted == [m EXCEPT !.pendingMessages = MapSet(@, messageId, pendingMessage)]
       IN IF SocketOpen(socket, phase)
          THEN IF throws
               THEN [counted EXCEPT !.events = Append(@, messageId),
                                    !.pendingMessages = MapDelete(@, messageId)]
               ELSE [Transmit(counted, pendingMessage.payload, "checkMessageDelivery") EXCEPT
                       !.timers = setTimeout(@, "checkMessageDelivery", messageId, CheckDelay)]
          ELSE queueMessage(counted, pendingMessage.payload)

\* checkMessageDelivery; throws is the outcome of its socket.send.
checkMessageDelivery(m, messageId, throws) ==
  IF messageId \notin DOMAIN m.pendingMessages
  THEN m
  ELSE IF m.pendingMessages[messageId].attempts >= MaxAttempts
  THEN [m EXCEPT !.pendingMessages = MapDelete(@, messageId),
                 !.events = Append(@, messageId)]
  ELSE LET pendingMessage == [m.pendingMessages[messageId] EXCEPT !.attempts = @ + 1]
           counted == [m EXCEPT !.pendingMessages = MapSet(@, messageId, pendingMessage)]
       IN IF SocketOpen(socket, phase)
          THEN IF throws
               THEN [counted EXCEPT !.events = Append(@, messageId),
                                    !.pendingMessages = MapDelete(@, messageId)]
               ELSE [Transmit(counted, pendingMessage.payload, "checkMessageDelivery") EXCEPT
                       !.timers = setTimeout(@, "checkMessageDelivery", messageId, CheckDelay)]
          ELSE [queueMessage(counted, pendingMessage.payload) EXCEPT
                  !.pendingMessages = MapDelete(@, messageId)]

\* The callback set by sendOrQueueMessage, processOfflineQueue or
\* checkMessageDelivery runs.
CheckTimerFires(throws) ==
  /\ Due("checkMessageDelivery")
  /\ Commit(checkMessageDelivery(Current(Remove(timers, NextTimer)),
                                 timers[NextTimer].id, throws))
  /\ UNCHANGED <<connVars, nextMsg, netVars, now, receipted>>
  /\ statusEvents' = <<>>
  /\ UNCHANGED released
  /\ errorEvents' = 0
  /\ readEvents' = 0
  /\ reconnectFailed' = 0

\* The callback of the reconnect timer, had it not called connect.
ReconnectTimerFiresIdle ==
  /\ Due("reconnect")
  /\ timers' = Remove(timers, NextTimer)
  /\ UNCHANGED connVars
  /\ UNCHANGED <<msgVars, netVars, now, histVars>>
  /\ statusEvents' = <<>>
  /\ UNCHANGED released
  /\ errorEvents' = 0
  /\ readEvents' = 0
  /\ reconnectFailed' = 0

\* The callback set by attemptReconnect runs.
ReconnectTimerFires ==
  /\ Due("reconnect")
  /\ timers' = Remove(timers, NextTimer)
  /\ IF userId # NoUser THEN connect(userId)
     ELSE UNCHANGED connVars /\ statusEvents' = <<>>
  /\ UNCHANGED <<msgVars, netVars, now, histVars>>
  /\ UNCHANGED released
  /\ errorEvents' = IF userId # NoUser THEN 0 ELSE 1
  /\ readEvents' = 0
  /\ reconnectFailed' = 0

\* Variant of HeartbeatTimeoutFires that closes with the normal code.
HeartbeatTimeoutFiresNormal ==
  LET pc == IF socket # NoSocket
            THEN CloseSocket([phase |-> phase, closeCode |-> closeCode], socket,
                             NormalClosure)
            ELSE [phase |-> phase, closeCode |-> closeCode]
  IN /\ Due("heartbeatTimeout")
     /\ timers' = Remove(timers, NextTimer)
     /\ phase' = pc.phase
     /\ closeCode' = pc.closeCode
     /\ UNCHANGED <<socket, isConnecting, userId, connectionStatus, reconnectAttempts>>
     /\ UNCHANGED <<msgVars, netVars, now, histVars>>
     /\ statusEvents' = <<>>
     /\ UNCHANGED released
     /\ errorEvents' = 0
     /\ readEvents' = 0
     /\ reconnectFailed' = 0

\* The callback set by sendHeartbeat runs: no heartbeat_ack came in time.
HeartbeatTimeoutFires ==
  LET pc == IF socket # NoSocket
            THEN CloseSocket([phase |-> phase, closeCode |-> closeCode], socket,
                             HeartbeatCloseCode)
            ELSE [phase |-> phase, closeCode |-> closeCode]
  IN /\ Due("heartbeatTimeout")
     /\ timers' = Remove(timers, NextTimer)
     /\ phase' = pc.phase
     /\ closeCode' = pc.closeCode
     /\ UNCHANGED <<socket, isConnecting, userId, connectionStatus, reconnectAttempts>>
     /\ UNCHANGED <<msgVars, netVars, now, histVars>>
     /\ statusEvents' = <<>>
     /\ UNCHANGED released
     /\ errorEvents' = 0
     /\ readEvents' = 0
     /\ reconnectFailed' = 0

\* Time passes until the next timer is due, not beyond instant h.
TickUntil(h) ==
  /\ timers # <<>>
  /\ timers[NextTimer].due > now
  /\ timers[NextTimer].due <= h
  /\ now' = timers[NextTimer].due
  /\ UNCHANGED <<connVars, msgVars, netVars, timers, histVars>>
  /\ statusEvents' = <<>>
  /\ UNCHANGED released
  /\ errorEvents' = 0
  /\ readEvents' = 0
  /\ reconnectFailed' = 0

Tick == TickUntil(Horizon)

ClientNext ==
  \/ (Creates(FirstSockets) /\ \E u \in ClientUsers : Connect(u)) /\ UNCHANGED serverVars
  \/ (Disconnect) /\ UNCHANGED serverVars
  \/ (\E s \in Sockets : OnOpen(s)) /\ UNCHANGED serverVars
  \/ (\E s \in Sockets : SocketCloses(s)) /\ UNCHANGED serverVars
  \/ (\E s \in Sockets, err \in BOOLEAN : TransportLost(s, err)) /\ UNCHANGED serverVars
  \/ (nextMsg < MaxMsgs /\ \E message \in Contents, recipientId \in ClientRecipients,
           chatGroupId \in ClientGroups, throws \in SendOutcomes :
         SendChatMessage(message, recipientId, chatGroupId, throws)) /\ UNCHANGED serverVars
  \/ (\E s \in Sockets : RecvAuthSuccess(s, 0)) /\ UNCHANGED serverVars
  \/ (\E s \in Sockets, messageId \in TransmittedIds : RecvMessageDelivered(s, messageId))
       /\ UNCHANGED serverVars
  \/ (\E s \in Sockets : RecvHeartbeatAck(s)) /\ UNCHANGED serverVars
  \/ (\E throws \in SendOutcomes : CheckTimerFires(throws)) /\ UNCHANGED serverVars
  \/ (Creates(FirstSockets) /\ ReconnectTimerFires) /\ UNCHANGED serverVars
  \/ (HeartbeatTimeoutFires) /\ UNCHANGED serverVars
  \/ (Tick) /\ UNCHANGED serverVars

Init == ServerInit /\ ClientInit

\* The router alone: the client never leaves its initial state.
SpecServer == Init /\ [][ServerNext]_vars

\* The router's liveness sweep over connections whose peers answer or not.
SpecSweep == Init /\ [][SweepNext]_vars

\* The router's registry with peers that may send several auth frames on one
\* connection, under the same or another user id.
MaxAuths == 2        \* auth frames the router answers on one connection in one run

AuthSuccesses(c) == Len(SelectSeq(sent[c], LAMBDA f : f.type = "auth_success"))

ReauthNext ==
  \/ (\E c \in Conns : OnConnection(c)) /\ UNCHANGED clientVars
  \/ (\E c \in Conns : ConnectionLost(c)) /\ UNCHANGED clientVars
  \/ (\E c \in Conns : OnClose(c)) /\ UNCHANGED clientVars
  \/ (\E c \in Conns, data \in AuthFrames : AuthSuccesses(c) < MaxAuths /\ OnAuth(c, data))
       /\ UNCHANGED clientVars

SpecReauth == Init /\ [][ReauthNext]_vars

\* The client alone, the router idle.
InitClient == ServerInit /\ ClientInit /\ ~cipherThrows

SpecClient == InitClient /\ [][ClientNext]_vars

\* The client where the router's frames may be text that is not JSON.
ParseNext ==
  \/ ClientNext
  \/ (\E s \in Sockets, data \in Unparseable : RecvUnparseable(s, data)) /\ UNCHANGED serverVars

SpecParse == InitClient /\ [][ParseNext]_vars

\* The client within one instant: calls, transport events and frames from
\* the router, and no timer comes due.
QueueNext ==
  \/ (Creates(FirstSockets) /\ \E u \in ClientUsers : Connect(u)) /\ UNCHANGED serverVars
  \/ (Disconnect) /\ UNCHANGED serverVars
  \/ (\E s \in Sockets : OnOpen(s)) /\ UNCHANGED serverVars
  \/ (\E s \in Sockets : SocketCloses(s)) /\ UNCHANGED serverVars
  \/ (\E s \in Sockets, err \in BOOLEAN : TransportLost(s, err)) /\ UNCHANGED serverVars
  \/ (nextMsg < MaxQueued /\ \E message \in Contents, recipientId \in ClientRecipients,
           chatGroupId \in ClientGroups, throws \in SendOutcomes :
         SendChatMessage(message, recipientId, chatGroupId, throws)) /\ UNCHANGED serverVars
  \/ (\E s \in Sockets : RecvAuthSuccess(s, 0)) /\ UNCHANGED serverVars
  \/ (\E s \in Sockets, messageId \in TransmittedIds : RecvMessageDelivered(s, messageId))
       /\ UNCHANGED serverVars
  \/ (\E s \in Sockets : RecvHeartbeatAck(s)) /\ UNCHANGED serverVars

SpecQueue == InitClient /\ [][QueueNext]_vars

(***************************************************************************)
(* The client within one instant, over a transport whose send may throw    *)
(* (the try/catch blocks around socket.send and JSON.stringify).           *)
(***************************************************************************)
ThrowOutcomes == BOOLEAN

ThrowNext ==
  \/ (Creates(FirstSockets) /\ \E u \in ClientUsers : Connect(u)) /\ UNCHANGED serverVars
  \/ (Disconnect) /\ UNCHANGED serverVars
  \/ (\E s \in Sockets : OnOpen(s)) /\ UNCHANGED serverVars
  \/ (\E s \in Sockets : SocketCloses(s)) /\ UNCHANGED serverVars
  \/ (\E s \in Sockets, err \in BOOLEAN : TransportLost(s, err)) /\ UNCHANGED serverVars
  \/ (nextMsg < MaxQueued /\ \E message \in Contents, recipientId \in ClientRecipients,
           chatGroupId \in ClientGroups, throws \in ThrowOutcomes :
         SendChatMessage(message, recipientId, chatGroupId, throws)) /\ UNCHANGED serverVars
  \/ (\E s \in Sockets, throwAt \in 0..MaxQueued : RecvAuthSuccess(s, throwAt))
       /\ UNCHANGED serverVars
  \/ (\E s \in Sockets, messageId \in TransmittedIds : RecvMessageDelivered(s, messageId))
       /\ UNCHANGED serverVars
  \/ (\E s \in Sockets : RecvHeartbeatAck(s)) /\ UNCHANGED serverVars

SpecThrow == InitClient /\ [][ThrowNext]_vars

(***************************************************************************)
(* The client without a transport, across page loads: over the queue an    *)
(* earlier session left in localStorage the application sends chat         *)
(* messages, time passes and the page is reloaded.                         *)
(***************************************************************************)
\* The entry an earlier session stored as its i-th, at time ts.
StoredMessage(i, ts) ==
  [payload |-> [type |-> "chat_message", messageId |-> <<0 - i, 1>>, senderId |-> 1,
                receiverId |-> NoUser, chatGroupId |-> 1, message |-> "hi",
                timestamp |-> ts],
   attempts |-> 0, timestamp |-> ts]

StoredQueue(n, ts) == [i \in 1..n |-> StoredMessage(n + 1 - i, ts)]

\* What the page finds in localStorage: nothing, or one entry or one short of
\* the cap, stored one ms or a full day before the page loads.
StoredQueues ==
  {<<>>} \cup {StoredQueue(n, ts) : n \in {1, MaxStored - 1}, ts \in {0 - MaxAge, 0 - 1}}

\* The instants at which the application calls or the page loads: the load
\* of the first page, one ms later, and one ms before and exactly a day
\* after the first load.
Instants == {0, 1, MaxAge - 1, MaxAge}

\* Time passes to instant t with no timer coming due before it.
TimePasses(t) ==
  /\ t > now
  /\ IF timers = <<>> THEN TRUE ELSE timers[NextTimer].due >= t
  /\ now' = t
  /\ UNCHANGED <<connVars, msgVars, netVars, timers, histVars>>
  /\ statusEvents' = <<>>
  /\ UNCHANGED released
  /\ errorEvents' = 0
  /\ readEvents' = 0
  /\ reconnectFailed' = 0

\* The page is reloaded: the module is evaluated again and the constructor
\* of the new WebSocketService reads the stored queue. Message ids, drawn
\* from the clock and Math.random(), do not repeat across reloads.
Reload ==
  /\ socket' = NoSocket
  /\ phase' = [s \in Sockets |-> IF phase[s] = "none" THEN "none" ELSE "closed"]
  /\ closeCode' = [s \in Sockets |-> 0]
  /\ isConnecting' = FALSE
  /\ userId' = NoUser
  /\ connectionStatus' = "disconnected"
  /\ reconnectAttempts' = 0
  /\ offlineQueue' = loadOfflineQueue(localStorage)
  /\ pendingMessages' = EmptyMap
  /\ authPending' = {}
  /\ hbPending' = {}
  /\ timers' = <<>>
  /\ UNCHANGED <<localStorage, nextMsg, now, histVars>>
  /\ statusEvents' = <<>>
  /\ released' = FALSE
  /\ errorEvents' = 0
  /\ readEvents' = 0
  /\ reconnectFailed' = 0

OfflineNext ==
  \/ (nextMsg < MaxQueued /\ \E message \in Contents, recipientId \in ClientRecipients,
           chatGroupId \in ClientGroups, throws \in SendOutcomes :
         SendChatMessage(message, recipientId, chatGroupId, throws)) /\ UNCHANGED serverVars
  \/ (\E t \in Instants : TimePasses(t)) /\ UNCHANGED serverVars
  \/ (Reload) /\ UNCHANGED serverVars

InitOffline ==
  /\ ServerInit
  /\ ~cipherThrows
  /\ \E stored \in StoredQueues : ClientStart(stored, 0)

SpecOffline == InitOffline /\ [][OfflineNext]_vars

(***************************************************************************)
(* The client sending typing indicators instead of chat messages.          *)
(***************************************************************************)
MaxTyping == 1       \* sendTypingIndicator calls by the application in one run
TypingStopDelay == 5000

typingTimeout == \E i \in DOMAIN timers : timers[i].kind = "typingTimeout"

TypingPayload(isTyping, recipientId, chatGroupId) ==
  [type |-> IF isTyping THEN "typing" ELSE "typing_stop", userId |-> userId,
   recipientId |-> recipientId, chatGroupId |-> chatGroupId, timestamp |-> now,
   messageId |-> NoId]

sendTypingIndicator(m, isTyping, recipientId, chatGroupId, throws) ==
  LET cleared == [m EXCEPT !.timers = SelectSeq(@, LAMBDA t : t.kind # "typingTimeout")]
      done == sendOrQueueMessage(cleared, TypingPayload(isTyping, recipientId, chatGroupId),
                                 throws)
  IN IF isTyping
     THEN [done EXCEPT !.timers = setTimeout(@, "typingTimeout",
                                             <<recipientId, chatGroupId>>, TypingStopDelay)]
     ELSE done

\* The typing and typing_stop payloads handed to sendOrQueueMessage so far.
Signals ==
  Len(SelectSeq(offlineQueue, LAMBDA msg : msg.payload.type \in {"typing", "typing_stop"}))
  + Len(SelectSeq(wire, LAMBDA f : f.type \in {"typing", "typing_stop"}))

\* The application calls sendTypingIndicator.
SendTypingIndicator(isTyping, recipientId, chatGroupId, throws) ==
  /\ Commit(sendTypingIndicator(Current(timers), isTyping, recipientId, chatGroupId, throws))
  /\ UNCHANGED <<connVars, nextMsg, netVars, now, receipted>>
  /\ statusEvents' = <<>>
  /\ UNCHANGED released
  /\ errorEvents' = 0
  /\ readEvents' = 0
  /\ reconnectFailed' = 0

\* The callback set by sendTypingIndicator(true, ...) runs.
TypingTimeoutFires ==
  /\ Due("typingTimeout")
  /\ \E throws \in SendOutcomes :
       Commit(sendTypingIndicator(Current(Remove(timers, NextTimer)), FALSE,
                                  timers[NextTimer].id[1], timers[NextTimer].id[2], throws))
  /\ UNCHANGED <<connVars, nextMsg, netVars, now, receipted>>
  /\ statusEvents' = <<>>
  /\ UNCHANGED released
  /\ errorEvents' = 0
  /\ readEvents' = 0
  /\ reconnectFailed' = 0

TypingNext ==
  \/ (Creates(FirstSockets) /\ \E u \in ClientUsers : Connect(u)) /\ UNCHANGED serverVars
  \/ (Disconnect) /\ UNCHANGED serverVars
  \/ (\E s \in Sockets : OnOpen(s)) /\ UNCHANGED serverVars
  \/ (\E s \in Sockets : SocketCloses(s)) /\ UNCHANGED serverVars
  \/ (\E s \in Sockets, err \in BOOLEAN : TransportLost(s, err)) /\ UNCHANGED serverVars
  \/ (Signals < MaxTyping /\ \E isTyping \in BOOLEAN, recipientId \in ClientRecipients,
           chatGroupId \in ClientGroups, throws \in SendOutcomes :
         SendTypingIndicator(isTyping, recipientId, chatGroupId, throws))
       /\ UNCHANGED serverVars
  \/ (\E s \in Sockets : RecvAuthSuccess(s, 0)) /\ UNCHANGED serverVars
  \/ (\E s \in Sockets : RecvHeartbeatAck(s)) /\ UNCHANGED serverVars
  \/ (Creates(FirstSockets) /\ ReconnectTimerFires) /\ UNCHANGED serverVars
  \/ (HeartbeatTimeoutFires) /\ UNCHANGED serverVars
  \/ (TypingTimeoutFires) /\ UNCHANGED serverVars
  \/ (Tick) /\ UNCHANGED serverVars

SpecTyping == InitClient /\ [][TypingNext]_vars

(***************************************************************************)
(* The connection manager alone, no chat message being sent.               *)
(* SpecReconnect: the application calls connect() once and may call        *)
(* disconnect(); the run lasts as long as a full series of reconnect       *)
(* attempts takes.  SpecManager: the application calls connect() and       *)
(* disconnect() and the browser fires 'online' and 'offline' at any time,  *)
(* over the first three transports.                                        *)
(***************************************************************************)
RECURSIVE TotalDelay(_)
TotalDelay(n) == IF n = 0 THEN 0 ELSE TotalDelay(n - 1) + ReconnectDelay(n)

\* The time the last of maxReconnectAttempts reconnect timers is due when
\* every attempt fails at once.
ReconnectHorizon == TotalDelay(maxReconnectAttempts)

\* The callback of the setInterval of startHeartbeat runs.
HeartbeatIntervalFires ==
  /\ Due("sendHeartbeat")
  /\ timers' = sendHeartbeat(setTimeout(Remove(timers, NextTimer), "sendHeartbeat",
                                        timers[NextTimer].id, HeartbeatPeriod))
  /\ hbPending' = IF SocketOpen(socket, phase) THEN hbPending \cup {socket} ELSE hbPending
  /\ UNCHANGED <<connVars, msgVars, authPending, now, histVars>>
  /\ statusEvents' = <<>>
  /\ UNCHANGED released
  /\ errorEvents' = 0
  /\ readEvents' = 0
  /\ reconnectFailed' = 0

\* The window's 'online' event.
Online ==
  /\ IF userId # NoUser /\ connectionStatus # "connected" /\ ~isConnecting
     THEN connect(userId)
     ELSE UNCHANGED connVars /\ statusEvents' = <<>>
  /\ UNCHANGED <<msgVars, netVars, timers, now, histVars>>
  /\ UNCHANGED released
  /\ errorEvents' = 0
  /\ readEvents' = 0
  /\ reconnectFailed' = 0

\* The window's 'offline' event.
Offline ==
  /\ connectionStatus' = "disconnected"
  /\ UNCHANGED <<socket, phase, closeCode, isConnecting, userId, reconnectAttempts>>
  /\ UNCHANGED <<msgVars, netVars, timers, now, histVars>>
  /\ statusEvents' = <<"disconnected">>
  /\ UNCHANGED released
  /\ errorEvents' = 1
  /\ readEvents' = 0
  /\ reconnectFailed' = 0

ReconnectNext ==
  \/ (userId = NoUser /\ \E u \in ClientUsers : Connect(u)) /\ UNCHANGED serverVars
  \/ (Disconnect) /\ UNCHANGED serverVars
  \/ (\E s \in Sockets : OnOpen(s)) /\ UNCHANGED serverVars
  \/ (\E s \in Sockets : SocketCloses(s)) /\ UNCHANGED serverVars
  \/ (\E s \in Sockets, err \in BOOLEAN : TransportLost(s, err)) /\ UNCHANGED serverVars
  \/ (\E s \in Sockets : RecvAuthSuccess(s, 0)) /\ UNCHANGED serverVars
  \/ (\E s \in Sockets : RecvHeartbeatAck(s)) /\ UNCHANGED serverVars
  \/ (Creates(Sockets) /\ ReconnectTimerFires) /\ UNCHANGED serverVars
  \/ (HeartbeatTimeoutFires) /\ UNCHANGED serverVars
  \/ (HeartbeatIntervalFires) /\ UNCHANGED serverVars
  \/ (TickUntil(ReconnectHorizon)) /\ UNCHANGED serverVars

SpecReconnect == InitClient /\ [][ReconnectNext]_vars

(***************************************************************************)
(* The reconnect state machine under fair scheduling.  The application     *)
(* calls connect() once and nothing else.  Any connect attempt may fail;   *)
(* the first transport may also drop, or leave a heartbeat unanswered,     *)
(* during its first ten seconds; later an open transport stays up and its  *)
(* heartbeats are answered.  The browser fires 'open' on a transport whose *)
(* handshake does not fail and 'close' on one that is closing, and the     *)
(* event loop runs the timers that are due.                                *)
(***************************************************************************)
Droppable == {1}

RecoverHorizon == HeartbeatTimeoutDelay + ReconnectHorizon

\* Transport s may still drop after it opened.
MayDrop(s) == s \in Droppable /\ now <= HeartbeatTimeoutDelay

\* Time passes; a transport that is closing fires 'close' before the next
\* timer is due.
RecoverTick ==
  /\ \A s \in Sockets : phase[s] # "closing"
  /\ TickUntil(RecoverHorizon)

RecoverNext ==
  \/ (userId = NoUser /\ \E u \in ClientUsers : Connect(u)) /\ UNCHANGED serverVars
  \/ (\E s \in Sockets : OnOpen(s)) /\ UNCHANGED serverVars
  \/ (\E s \in Sockets : SocketCloses(s)) /\ UNCHANGED serverVars
  \/ (\E s \in Sockets, err \in BOOLEAN :
        (phase[s] = "connecting" \/ MayDrop(s)) /\ TransportLost(s, err))
       /\ UNCHANGED serverVars
  \/ (\E s \in Sockets : RecvAuthSuccess(s, 0)) /\ UNCHANGED serverVars
  \/ (\E s \in Sockets : RecvHeartbeatAck(s)) /\ UNCHANGED serverVars
  \/ (Creates(Sockets) /\ ReconnectTimerFires) /\ UNCHANGED serverVars
  \/ (MayDrop(socket) /\ HeartbeatTimeoutFires) /\ UNCHANGED serverVars
  \/ (HeartbeatIntervalFires) /\ UNCHANGED serverVars
  \/ (RecoverTick) /\ UNCHANGED serverVars

RecoverFairness ==
  /\ WF_vars((\E s \in Sockets : OnOpen(s)) /\ UNCHANGED serverVars)
  /\ WF_vars((\E s \in Sockets : SocketCloses(s)) /\ UNCHANGED serverVars)
  /\ WF_vars((\E s \in Sockets : RecvHeartbeatAck(s)) /\ UNCHANGED serverVars)
  /\ WF_vars((Creates(Sockets) /\ ReconnectTimerFires) /\ UNCHANGED serverVars)
  /\ WF_vars(HeartbeatIntervalFires /\ UNCHANGED serverVars)
  /\ WF_vars(RecoverTick /\ UNCHANGED serverVars)

SpecRecover == InitClient /\ [][RecoverNext]_vars /\ RecoverFairness

ManagerSockets == {1, 2, 3}
ManagerUsers == {1, 2}     \* the user ids the application passes to connect()

ManagerNext ==
  \/ (Creates(ManagerSockets) /\ \E u \in ManagerUsers : Connect(u)) /\ UNCHANGED serverVars
  \/ (Disconnect) /\ UNCHANGED serverVars
  \/ (\E s \in Sockets : OnOpen(s)) /\ UNCHANGED serverVars
  \/ (\E s \in Sockets : SocketCloses(s)) /\ UNCHANGED serverVars
  \/ (\E s \in Sockets, err \in BOOLEAN : TransportLost(s, err)) /\ UNCHANGED serverVars
  \/ (\E s \in Sockets : RecvAuthSuccess(s, 0)) /\ UNCHANGED serverVars
  \/ (\E s \in Sockets : RecvHeartbeatAck(s)) /\ UNCHANGED serverVars
  \/ (Creates(ManagerSockets) /\ Online) /\ UNCHANGED serverVars
  \/ (Offline) /\ UNCHANGED serverVars
  \/ (Creates(ManagerSockets) /\ ReconnectTimerFires) /\ UNCHANGED serverVars
  \/ (HeartbeatTimeoutFires) /\ UNCHANGED serverVars
  \/ (Tick) /\ UNCHANGED serverVars

SpecManager == InitClient /\ [][ManagerNext]_vars

\* The connection manager where the WebSocket constructor may throw in a
\* connect() call of the application.
CreateNext ==
  \/ ManagerNext
  \/ (\E u \in ManagerUsers : ConnectFails(u)) /\ UNCHANGED serverVars

SpecCreate == InitClient /\ [][CreateNext]_vars

(***************************************************************************)
(* The delivery protocol across reconnects: the client as in SpecClient,   *)
(* over the first three transports, the application sending one message.   *)
(***************************************************************************)
SessionNext ==
  \/ (Creates(ManagerSockets) /\ \E u \in ClientUsers : Connect(u)) /\ UNCHANGED serverVars
  \/ (Disconnect) /\ UNCHANGED serverVars
  \/ (\E s \in Sockets : OnOpen(s)) /\ UNCHANGED serverVars
  \/ (\E s \in Sockets : SocketCloses(s)) /\ UNCHANGED serverVars
  \/ (\E s \in Sockets, err \in BOOLEAN : TransportLost(s, err)) /\ UNCHANGED serverVars
  \/ (nextMsg = 0 /\ \E message \in Contents, recipientId \in ClientRecipients,
           chatGroupId \in ClientGroups, throws \in SendOutcomes :
         SendChatMessage(message, recipientId, chatGroupId, throws)) /\ UNCHANGED serverVars
  \/ (\E s \in Sockets : RecvAuthSuccess(s, 0)) /\ UNCHANGED serverVars
  \/ (\E s \in Sockets, messageId \in TransmittedIds : RecvMessageDelivered(s, messageId))
       /\ UNCHANGED serverVars
  \/ (\E s \in Sockets : RecvHeartbeatAck(s)) /\ UNCHANGED serverVars
  \/ (\E throws \in SendOutcomes : CheckTimerFires(throws)) /\ UNCHANGED serverVars
  \/ (Creates(ManagerSockets) /\ ReconnectTimerFires) /\ UNCHANGED serverVars
  \/ (HeartbeatTimeoutFires) /\ UNCHANGED serverVars
  \/ (Tick) /\ UNCHANGED serverVars

SpecSession == InitClient /\ [][SessionNext]_vars

(***************************************************************************)
(* The heartbeat timers across transports: the application calls connect() *)
(* and disconnect() at any time, over the first two transports, for as     *)
(* long as one heartbeat period and the timeout of its heartbeat take.     *)
(***************************************************************************)
HeartbeatHorizon == HeartbeatPeriod + HeartbeatTimeoutDelay

HeartbeatNext ==
  \/ (Creates(FirstSockets) /\ \E u \in ClientUsers : Connect(u)) /\ UNCHANGED serverVars
  \/ (Disconnect) /\ UNCHANGED serverVars
  \/ (\E s \in Sockets : OnOpen(s)) /\ UNCHANGED serverVars
  \/ (\E s \in Sockets : SocketCloses(s)) /\ UNCHANGED serverVars
  \/ (\E s \in Sockets, err \in BOOLEAN : TransportLost(s, err)) /\ UNCHANGED serverVars
  \/ (\E s \in Sockets : RecvAuthSuccess(s, 0)) /\ UNCHANGED serverVars
  \/ (\E s \in Sockets : RecvHeartbeatAck(s)) /\ UNCHANGED serverVars
  \/ (Creates(FirstSockets) /\ ReconnectTimerFires) /\ UNCHANGED serverVars
  \/ (HeartbeatTimeoutFires) /\ UNCHANGED serverVars
  \/ (HeartbeatIntervalFires) /\ UNCHANGED serverVars
  \/ (TickUntil(HeartbeatHorizon)) /\ UNCHANGED serverVars

SpecHeartbeat == InitClient /\ [][HeartbeatNext]_vars

(***************************************************************************)
(* The client of user 1 and the router together, while the client's first  *)
(* transport is up. The other member of the group, user 2, connects first; *)
(* the router numbers connections in accept order, so the client's         *)
(* transport s is connection s + 1. The router reads the frames on the     *)
(* wire in order; its frames reach the client after any delay.             *)
(***************************************************************************)
MemberConn == 1
Member == 2
ConnOf(s) == s + MemberConn

\* The frame the router parses from a payload the client sent.
RouterFrame(payload) ==
  IF payload.type = "auth"
  THEN InFrame("auth", payload.userId, NoUser, NoUser, NoGroup, NoText, NoId)
  ELSE InFrame("chat_message", NoUser, payload.senderId, payload.receiverId,
               payload.chatGroupId, payload.message, payload.messageId)

ChatWire == SelectSeq(wire, LAMBDA f : f.type = "chat_message")

RouterSent(s, type, messageId) ==
  \E i \in DOMAIN sent[ConnOf(s)] :
    sent[ConnOf(s)][i].type = type /\ sent[ConnOf(s)][i].messageId = messageId

SystemNext ==
  \/ (OnConnection(MemberConn)) /\ UNCHANGED clientVars
  \/ (FirstAuth(MemberConn) /\ OnAuth(MemberConn, InFrame("auth", Member, NoUser, NoUser, NoGroup, NoText, NoId)))
       /\ UNCHANGED clientVars
  \/ (phase[1] = "none" /\ \E u \in ClientUsers : Connect(u)) /\ UNCHANGED serverVars
  \/ (phase[1] = "connecting" /\ OnConnection(ConnOf(1))) /\ UNCHANGED clientVars
  \/ (readyState[ConnOf(1)] = "open" /\ OnOpen(1)) /\ UNCHANGED serverVars
  \/ (\E i \in DOMAIN wire : wire[i].type = "auth"
                               /\ FirstAuth(ConnOf(wire[i].sock))
                               /\ OnAuth(ConnOf(wire[i].sock), RouterFrame(wire[i].payload)))
       /\ UNCHANGED clientVars
  \/ (RouterSent(1, "auth_success", NoId) /\ RecvAuthSuccess(1, 0)) /\ UNCHANGED serverVars
  \/ (nextMsg < MaxMsgs /\ userId # NoUser
       /\ \E message \in Contents, recipientId \in ClientRecipients,
             chatGroupId \in ClientGroups, throws \in SendOutcomes :
           SendChatMessage(message, recipientId, chatGroupId, throws)) /\ UNCHANGED serverVars
  \/ (nChat < Len(ChatWire) /\ wsUserId[ConnOf(ChatWire[nChat + 1].sock)] # NoUser
       /\ OnChatMessage(ConnOf(ChatWire[nChat + 1].sock), RouterFrame(ChatWire[nChat + 1].payload)))
       /\ UNCHANGED clientVars
  \/ (\E h \in handlers : CreateChatMessageResolves(h)) /\ UNCHANGED clientVars
  \/ (\E h \in handlers : CreateChatMessageThrows(h)) /\ UNCHANGED clientVars
  \/ (\E h \in handlers : GetEventParticipantsResolves(h)) /\ UNCHANGED clientVars
  \/ (\E messageId \in TransmittedIds :
         RouterSent(1, "message_delivered", messageId) /\ RecvMessageDelivered(1, messageId))
       /\ UNCHANGED serverVars
  \/ (RecvHeartbeatAck(1)) /\ UNCHANGED serverVars
  \/ (\E throws \in SendOutcomes : CheckTimerFires(throws)) /\ UNCHANGED serverVars
  \/ (HeartbeatTimeoutFires) /\ UNCHANGED serverVars
  \/ (Tick) /\ UNCHANGED serverVars

SpecSystem == Init /\ [][SystemNext]_vars

(***************************************************************************)
(* Read notices: user 2 (the reader) on the first connection sends         *)
(* mark_read frames; user 1 (the sender of the messages) is the client, on *)
(* its first transport.                                                    *)
(***************************************************************************)
MaxReads == 1        \* mark_read frames the router accepts in one run

\* The frames the router sent from mark_read handlers.
ReadAnswers ==
  UNION {{<<c, i>> : i \in {j \in DOMAIN sent[c] : sent[c][j].type \in {"message_read", "error"}}} :
           c \in Conns}

ReadNext ==
  \/ (OnConnection(MemberConn)) /\ UNCHANGED clientVars
  \/ (FirstAuth(MemberConn) /\ OnAuth(MemberConn, InFrame("auth", Member, NoUser, NoUser, NoGroup, NoText, NoId)))
       /\ UNCHANGED clientVars
  \/ (ConnectionLost(MemberConn)) /\ UNCHANGED clientVars
  \/ (OnClose(MemberConn)) /\ UNCHANGED clientVars
  \/ (phase[1] = "none" /\ \E u \in ClientUsers : Connect(u)) /\ UNCHANGED serverVars
  \/ (phase[1] = "connecting" /\ OnConnection(ConnOf(1))) /\ UNCHANGED clientVars
  \/ (readyState[ConnOf(1)] = "open" /\ OnOpen(1)) /\ UNCHANGED serverVars
  \/ (\E i \in DOMAIN wire : wire[i].type = "auth"
                               /\ FirstAuth(ConnOf(wire[i].sock))
                               /\ OnAuth(ConnOf(wire[i].sock), RouterFrame(wire[i].payload)))
       /\ UNCHANGED clientVars
  \/ (RouterSent(1, "auth_success", NoId) /\ RecvAuthSuccess(1, 0)) /\ UNCHANGED serverVars
  \/ (Cardinality(ReadAnswers) + Cardinality(reading) < MaxReads
       /\ \E data \in MarkReadFrames : OnMarkRead(MemberConn, data)) /\ UNCHANGED clientVars
  \/ (\E r \in reading : MarkMessagesAsReadResolves(r)) /\ UNCHANGED clientVars
  \/ (\E r \in reading : MarkMessagesAsReadThrows(r)) /\ UNCHANGED clientVars
  \/ (\E i \in DOMAIN sent[ConnOf(1)] : RecvMessageRead(1, sent[ConnOf(1)][i]))
       /\ UNCHANGED serverVars

SpecRead == Init /\ [][ReadNext]_vars

(***************************************************************************)
(* Properties of the router (SpecServer).                                  *)
(***************************************************************************)
\* The frames of kind `type` that handler invocation hid passed to c.send().
FramesOf(c, hid, type) ==
  {i \in 1..Len(sent[c]) : sent[c][i].hid = hid /\ sent[c][i].type = type}

\* A frame addressed to one recipient / to a group.
Direct(data) == data.receiverId # NoUser /\ data.chatGroupId = NoGroup
ToGroup(data) == data.chatGroupId # NoGroup

\* An ended invocation whose persistence call resolved, for a frame with a messageId.
Stored(k) == ~k.threw /\ k.data.messageId # NoId

\* C1: a direct chat_message whose recipient's registry entry is an open
\* connection when the router looks it up: that connection is sent a
\* chat_message frame with the sender's plaintext content, and the sender's
\* connection is sent message_delivered with the same messageId.
C1_DirectDelivery ==
  \A k \in completed :
    (Stored(k) /\ Direct(k.data) /\ k.live[k.data.receiverId] # NoConn) =>
      /\ \E i \in FramesOf(k.live[k.data.receiverId], k.hid, "chat_message") :
           /\ sent[k.live[k.data.receiverId]][i].content = k.data.message
           /\ sent[k.live[k.data.receiverId]][i].messageId = k.data.messageId
      /\ \E j \in FramesOf(k.ws, k.hid, "message_delivered") :
           sent[k.ws][j].messageId = k.data.messageId

C1_Witness ==
  \E k \in completed :
    /\ Stored(k) /\ Direct(k.data) /\ ~cipherThrows
    /\ k.live[k.data.receiverId] # NoConn
    /\ k.live[k.data.receiverId] # k.ws

\* C2: a direct chat_message whose recipient has no live connection in the
\* registry: the sender is still sent message_delivered with the messageId and
\* no error frame, and no connection is ever sent that message, also not
\* after the recipient registers a connection later.
C2_OfflineRecipient ==
  \A k \in completed :
    (Stored(k) /\ Direct(k.data) /\ k.live[k.data.receiverId] = NoConn) =>
      /\ \E j \in FramesOf(k.ws, k.hid, "message_delivered") :
           sent[k.ws][j].messageId = k.data.messageId
      /\ FramesOf(k.ws, k.hid, "error") = {}
      /\ \A c \in Conns : FramesOf(c, k.hid, "chat_message") = {}

C2_Witness ==
  \E k \in completed :
    /\ Stored(k) /\ Direct(k.data) /\ k.live[k.data.receiverId] = NoConn
    /\ Live(activeConnections, readyState, k.data.receiverId)
    /\ activeConnections[k.data.receiverId] # k.ws

\* C4: when the persistence call throws, the invocation sends no
\* message_delivered and pushes no chat_message frame to anyone; its own
\* connection is sent an error frame.  Nothing is sent before the call returns.
C4_PersistenceFailure ==
  /\ \A k \in completed :
       k.threw =>
         /\ \A c \in Conns : FramesOf(c, k.hid, "message_delivered") = {}
         /\ \A c \in Conns : FramesOf(c, k.hid, "chat_message") = {}
         /\ FramesOf(k.ws, k.hid, "error") # {}
  /\ \A h \in handlers :
       h.pc = "createChatMessage" =>
         \A c \in Conns : FramesOf(c, h.hid, "message_delivered") = {}
                          /\ FramesOf(c, h.hid, "chat_message") = {}

C4_Witness ==
  \E k \in completed :
    /\ k.threw /\ k.data.messageId # NoId
    /\ Live(activeConnections, readyState, 2) /\ activeConnections[2] # k.ws

\* C5 (as claimed): every stored row, every pushed chat_message frame and every
\* receipt comes from a frame with content and exactly one addressing field.
WellAddressed(data) ==
  /\ data.message # NoText
  /\ (data.receiverId # NoUser) # (data.chatGroupId # NoGroup)

C5_RejectsIllAddressed ==
  /\ \A i \in 1..Len(chatMessages) :
       /\ chatMessages[i].content # NoText
       /\ (chatMessages[i].receiverId # NoUser) # (chatMessages[i].chatGroupId # NoGroup)
  /\ \A k \in completed : WellAddressed(k.data)

\* C6: the registry holds one connection per user id, which is the connection
\* that authenticated under that id last; and every frame routed through the
\* registry to a user id was passed to the connection the registry held for
\* that id at that moment, so never to a replaced one.
C6_RegistryNewest ==
  /\ \A u \in Users : activeConnections[u] # NoConn => activeConnections[u] = lastAuth[u]
  /\ \A k \in completed : \A c \in Conns : \A i \in 1..Len(sent[c]) :
       (sent[c][i].hid = k.hid /\ sent[c][i].via # NoUser) => c = k.live[sent[c][i].via]

C6_Witness ==
  \E k \in completed :
    /\ Stored(k) /\ Direct(k.data)
    /\ k.live[k.data.receiverId] = 2
    /\ wsUserId[1] = k.data.receiverId /\ wsUserId[2] = k.data.receiverId
    /\ readyState[1] = "open"
    /\ lastAuth[k.data.receiverId] = 2

(***************************************************************************)
(* Properties of the client (SpecClient).                                  *)
(***************************************************************************)
\* The chat frames carrying messageId that the client transmitted, in order.
Transmissions(messageId) ==
  SelectSeq(wire, LAMBDA f : f.type = "chat_message" /\ f.messageId = messageId)

\* The number of 'websocket-message-failed' notifications for messageId.
Failures(messageId) == Len(SelectSeq(events, LAMBDA e : e = messageId))

Queued(messageId) ==
  \E i \in DOMAIN offlineQueue : offlineQueue[i].payload.messageId = messageId

CheckTimers(messageId) ==
  SelectSeq(timers, LAMBDA t : t.kind = "checkMessageDelivery" /\ t.id = messageId)

\* messageId was handed to a transport that was open, that transport has
\* been the manager's open transport ever since (a transport that stopped
\* being it never becomes it again), and no message_delivered came for it.
Unacknowledged(messageId) ==
  LET tx == Transmissions(messageId)
  IN /\ tx # <<>>
     /\ tx[1].via = "sendOrQueueMessage"
     /\ socket = tx[1].sock
     /\ phase[socket] = "open"
     /\ messageId \notin receipted

\* C8: a chat message handed to an open transport that stays open and gets
\* no message_delivered is transmitted at t, t + 5 s and t + 10 s and no more;
\* at t + 15 s one failure notification carries its messageId, its Pending
\* Delivery entry is gone and nothing is left that would retry it. Until
\* then it is pending with attempts equal to the transmissions made, and
\* one delivery check is set for the next 5 s mark.
C8_ThreeTransmissionsThenFailed ==
  \A messageId \in TransmittedIds :
    Unacknowledged(messageId) =>
      LET tx == Transmissions(messageId)
          t == tx[1].at
      IN /\ Len(tx) <= MaxAttempts
         /\ \A k \in DOMAIN tx : tx[k].at = t + (k - 1) * CheckDelay /\ tx[k].sock = socket
         /\ ~Queued(messageId)
         /\ IF Failures(messageId) = 0
            THEN /\ messageId \in DOMAIN pendingMessages
                 /\ pendingMessages[messageId].attempts = Len(tx)
                 /\ Len(CheckTimers(messageId)) = 1
                 /\ CheckTimers(messageId)[1].due = t + Len(tx) * CheckDelay
            ELSE /\ Failures(messageId) = 1
                 /\ Len(tx) = MaxAttempts
                 /\ now >= t + MaxAttempts * CheckDelay
                 /\ messageId \notin DOMAIN pendingMessages
                 /\ CheckTimers(messageId) = <<>>

C8_Witness ==
  \E messageId \in TransmittedIds :
    /\ Unacknowledged(messageId)
    /\ Len(Transmissions(messageId)) = MaxAttempts
    /\ events = <<messageId>>
    /\ now = Transmissions(messageId)[1].at + MaxAttempts * CheckDelay

\* C9: whatever the transport does, the client transmits one messageId at
\* most 3 times.
C9_AtMostThreeTransmissions ==
  \A messageId \in TransmittedIds : Len(Transmissions(messageId)) <= MaxAttempts

\* C10: a message_delivered never adds a Pending Delivery entry and leaves
\* none for its messageId; it leaves the Offline Queue alone; and when its
\* messageId is not pending (as after an earlier receipt) it changes neither.
C10_ReceiptIdempotent ==
  [][\A s \in Sockets, messageId \in TransmittedIds :
       RecvMessageDelivered(s, messageId) =>
         /\ DOMAIN pendingMessages' = DOMAIN pendingMessages \ {messageId}
         /\ \A k \in DOMAIN pendingMessages' : pendingMessages'[k] = pendingMessages[k]
         /\ offlineQueue' = offlineQueue
         /\ localStorage' = localStorage
         /\ (messageId \notin DOMAIN pendingMessages =>
               pendingMessages' = pendingMessages)]_vars

\* A receipt has removed the Pending Delivery entry of a messageId that was
\* transmitted twice, and the transport on which the second receipt arrives
\* is still open: the messageId is neither pending nor queued.
C10_Witness ==
  \E s \in Sockets, messageId \in receipted :
    /\ Receiving(s)
    /\ Len(SelectSeq(Transmissions(messageId), LAMBDA f : f.sock = s)) >= 2
    /\ messageId \notin DOMAIN pendingMessages
    /\ ~Queued(messageId)

(***************************************************************************)
(* Properties of the Offline Queue (SpecQueue).                            *)
(***************************************************************************)
\* The frames a flush of queue on the current transport puts on the wire.
FlushFrames(queue) ==
  [i \in DOMAIN queue |->
     Frame(socket, [queue[i].payload EXCEPT !.timestamp = now], "processOfflineQueue")]

Created(n) ==
  \E u \in ClientUsers \cup {NoUser} : Queued(<<n, u>>) \/ Transmissions(<<n, u>>) # <<>>

\* C7: sendChatMessage while the transport is not open transmits nothing and
\* appends the message to the Offline Queue; every message created is in the
\* queue until it has been transmitted; and auth_success handled while the
\* transport is open transmits the whole queue, oldest entry first, and
\* empties it.
C7_QueuedThenFlushedInOrder ==
  /\ [](\A n \in 1..nextMsg : Created(n))
  /\ [][(nextMsg' = nextMsg + 1 /\ ~SocketOpen(socket, phase)) =>
          /\ Len(offlineQueue') = Len(offlineQueue) + 1
          /\ SubSeq(offlineQueue', 1, Len(offlineQueue)) = offlineQueue
          /\ offlineQueue'[Len(offlineQueue')].payload.messageId = generateMessageId
          /\ wire' = wire]_vars
  /\ [][\A s \in Sockets :
          (RecvAuthSuccess(s, 0) /\ SocketOpen(socket, phase)) =>
            /\ wire' = wire \o FlushFrames(offlineQueue)
            /\ offlineQueue' = <<>>]_vars

\* Two messages were queued while no transport was open and one flush sent
\* both, the older first.
C7_Witness ==
  \E i \in DOMAIN wire :
    /\ i + 1 \in DOMAIN wire
    /\ wire[i].via = "processOfflineQueue" /\ wire[i].messageId[1] = 1
    /\ wire[i + 1].via = "processOfflineQueue" /\ wire[i + 1].messageId[1] = 2
    /\ offlineQueue = <<>>

(***************************************************************************)
(* Properties of the client and the router together (SpecSystem).          *)
(***************************************************************************)
\* The chat_message frames carrying messageId that the router sent on c.
Copies(c, messageId) ==
  SelectSeq(sent[c], LAMBDA f : f.type = "chat_message" /\ f.messageId = messageId)

\* C3: no connection is sent two chat_message frames carrying the messageId
\* of one group-addressed message of the client.
C3_OneCopyPerMember ==
  \A c \in Conns, messageId \in TransmittedIds : Len(Copies(c, messageId)) <= 1


(***************************************************************************)
(* Properties of the stored Offline Queue (SpecOffline).                   *)
(***************************************************************************)
\* The entries of queue that saveOfflineQueue may store at this instant:
\* chat messages enqueued less than 24 hours ago.
Eligible(queue) ==
  SelectSeq(queue, LAMBDA msg : msg.timestamp > now - MaxAge
                                /\ msg.payload.type = "chat_message")

\* The last n entries of q, or all of q when it has fewer.
Last(q, n) == SubSeq(q, Len(q) - Min(Len(q), n) + 1, Len(q))

\* C11: whenever a chat message is enqueued, what is stored has at most 100
\* entries and is the most recently enqueued 100 (or all, when fewer) of the
\* queue's chat messages younger than 24 hours.
C11_StoresMostRecent ==
  [][nextMsg' = nextMsg + 1 =>
       /\ Len(localStorage') <= MaxStored
       /\ localStorage' = Last(Eligible(offlineQueue'), MaxStored)]_vars


\* No entry of q was enqueued 24 hours or more before instant t.
Fresh(q, t) == \A i \in DOMAIN q : t - q[i].timestamp < MaxAge

\* C12: the queue the constructor loads holds no entry enqueued 24 hours or
\* more earlier; every save writes no such entry; and the queue a reloaded
\* page holds, the one the next flush sends, contains no such entry.
C12_NoStaleEntrySurvives ==
  /\ Fresh(offlineQueue, now)
  /\ [][nextMsg' = nextMsg + 1 => Fresh(localStorage', now')]_vars
  /\ [][Reload => Fresh(offlineQueue', now')]_vars

\* A message was enqueued and saved behind an older stored entry, a day
\* passed, and the reloaded page holds the message without the older entry.
C12_Witness ==
  /\ nextMsg >= 1
  /\ ~Fresh(localStorage, now)
  /\ offlineQueue # <<>>
  /\ offlineQueue = loadOfflineQueue(localStorage)
  /\ \E i \in DOMAIN localStorage :
       \A j \in DOMAIN offlineQueue :
         offlineQueue[j].payload.messageId # localStorage[i].payload.messageId


(***************************************************************************)
(* Properties of transient signals (SpecTyping).                           *)
(***************************************************************************)
TransientTypes == {"heartbeat", "heartbeat_ack", "typing", "typing_stop"}

\* C13: the Offline Queue never holds a heartbeat, heartbeat_ack, typing or
\* typing_stop payload, and no flush of the queue transmits one.
C13_SignalsNeverQueued ==
  /\ \A i \in DOMAIN offlineQueue : offlineQueue[i].payload.type \notin TransientTypes
  /\ \A i \in DOMAIN wire :
       wire[i].via = "processOfflineQueue" => wire[i].type \notin TransientTypes


(***************************************************************************)
(* Properties of the connection manager (SpecReconnect, SpecManager).      *)
(***************************************************************************)
ReconnectTimers(ts) == SelectSeq(ts, LAMBDA t : t.kind = "reconnect")

\* The step is the 'close' event of transport s.
Closes(s) == phase[s] \in {"connecting", "open", "closing"} /\ phase'[s] = "closed"

\* The code of the 'close' event a transport in this state gets: the code
\* recorded when the client closed it, 1006 when the transport is lost.
EventCode(s) == IF phase[s] = "closing" THEN closeCode[s] ELSE AbnormalClosure

\* The step sets one more reconnect timer.
Scheduled == Len(ReconnectTimers(timers')) = Len(ReconnectTimers(timers)) + 1

\* C14 as stated: a 'close' event schedules a reconnect if and only if its
\* code is not 1000.
C14_ReconnectIffNotNormal ==
  [][\A s \in Sockets : Closes(s) => (Scheduled <=> EventCode(s) # NormalClosure)]_vars

\* C14 as amended: a 'close' event schedules a reconnect, counting one more
\* attempt, if and only if its code is not 1000 and fewer than
\* maxReconnectAttempts attempts have been counted since the last 'open';
\* otherwise it sets no timer and leaves the counter alone.
C14_ReconnectUnlessNormalOrExhausted ==
  [][\A s \in Sockets :
       Closes(s) =>
         IF EventCode(s) # NormalClosure /\ reconnectAttempts < maxReconnectAttempts
         THEN Scheduled /\ reconnectAttempts' = reconnectAttempts + 1
         ELSE /\ ReconnectTimers(timers') = ReconnectTimers(timers)
              /\ reconnectAttempts' = reconnectAttempts]_vars

\* Five reconnects were scheduled in a row and the transport of the last
\* one closed too, with no reconnect scheduled.
C14_Witness ==
  /\ reconnectAttempts = maxReconnectAttempts
  /\ ReconnectTimers(timers) = <<>>
  /\ \A s \in Sockets : phase[s] = "closed"


\* The transports that are connecting or open.
LiveTransports == {s \in Sockets : phase[s] \in {"connecting", "open"}}

\* C15: at most one transport the manager created is connecting or open.
C15_OneTransportAtATime == Cardinality(LiveTransports) <= 1


\* The step runs the callback of a heartbeat timeout: the timer set 10 s
\* ago by sendHeartbeat is due and leaves the timer queue, no heartbeat_ack
\* being handled.
TimesOut ==
  /\ Due("heartbeatTimeout")
  /\ timers[NextTimer].due = now
  /\ timers' = Remove(timers, NextTimer)
  /\ hbPending' = hbPending

C17_SweepTerminatesSilent ==
  [][Sweep =>
       \A c \in Conns :
         /\ readyState[c] = "open" => (readyState'[c] = "closing" <=> marked[c])
         /\ (Tracked(c) /\ ~marked[c]) =>
              /\ ~isAlive'[c]
              /\ sent'[c] = IF readyState[c] = "open"
                            THEN Append(sent[c], HeartbeatFrame)
                            ELSE sent[c]
         /\ (Tracked(c) /\ marked[c]) => sent'[c] = sent[c]
         /\ ~Tracked(c) => (readyState'[c] = readyState[c] /\ sent'[c] = sent[c])]_vars

\* One connection answered its first heartbeat and was sent a second one by
\* the next sweep, which terminated the other, silent since its first.
C17_Witness ==
  \E c, d \in Conns :
    /\ readyState[c] = "open" /\ Heartbeats(c) = 2
    /\ readyState[d] = "closing" /\ Heartbeats(d) = 1 /\ marked[d] /\ ~isAlive[d]


(***************************************************************************)
(* Properties of the group fan-out (SpecServer).                           *)
(***************************************************************************)
Members == {eventParticipants[i] : i \in DOMAIN eventParticipants}

Failed == connectionStatus = "disconnected" /\ reconnectAttempts >= 1

Connected == connectionStatus = "connected"

\* attemptReconnect gave up: five attempts in a row failed and no further
\* attempt is scheduled.
Exhausted ==
  /\ connectionStatus = "disconnected"
  /\ reconnectAttempts >= maxReconnectAttempts
  /\ ReconnectTimers(timers) = <<>>

NewReconnectTimer == ReconnectTimers(timers')[Len(ReconnectTimers(timers'))]

StaleTimer ==
  /\ socket # NoSocket
  /\ timers[NextTimer].id[1] \in Sockets
  /\ timers[NextTimer].id[1] < socket

\* C21: disconnect() leaves neither the heartbeat interval nor the heartbeat
\* timeout armed, and a heartbeat timer armed for an earlier transport never
\* acts on a later one: its callback neither sends a heartbeat on the later
\* transport nor closes it.
C21_HeartbeatTimersStayWithTransport ==
  [][/\ Disconnect => ~heartbeatInterval' /\ ~heartbeatTimeout'
     /\ HeartbeatIntervalFires => ~(StaleTimer /\ SocketOpen(socket, phase))
     /\ HeartbeatTimeoutFires =>
          ~(StaleTimer /\ phase[socket] \in {"connecting", "open"})]_vars

(***************************************************************************)
(* Properties of the connection manager under free calls (SpecManager).    *)
(***************************************************************************)
\* A connect attempt is in progress or the manager's transport is open.
Busy == isConnecting \/ SocketOpen(socket, phase)

\* C22: connect(userId) called while a connect attempt is in progress or
\* while the transport is open creates no transport, leaves the stored
\* userId, the status and the reconnect counter as they were and emits no
\* status-change notification.
C22_ConnectWhileBusyIsNoOp ==
  [][\A u \in ManagerUsers :
       (Busy /\ Connect(u)) =>
         /\ phase' = phase
         /\ socket' = socket
         /\ userId' = userId
         /\ connectionStatus' = connectionStatus
         /\ reconnectAttempts' = reconnectAttempts
         /\ statusEvents' = <<>>]_vars

\* connect() was just called with the first transport still connecting: the
\* 'connecting' notification of the call that created it is not repeated.
C22_Witness ==
  /\ isConnecting
  /\ socket = 1 /\ phase[1] = "connecting"
  /\ userId # NoUser
  /\ connectionStatus = "connecting"
  /\ timers = <<>>
  /\ statusEvents = <<>>

(***************************************************************************)
(* Properties of the registry across reconnects (SpecServer).              *)
(***************************************************************************)
\* C23: the close of a connection that a newer connection of the same user
\* id has replaced in the registry leaves the newer entry in place: while
\* the connection that authenticated last under a user id is open, the
\* registry maps the user id to it, so frames addressed to the user id
\* reach it.
C23_ReplacedCloseKeepsNewer ==
  \A u \in Users :
    (lastAuth[u] # NoConn /\ readyState[lastAuth[u]] = "open" /\ wsUserId[lastAuth[u]] = u)
      => activeConnections[u] = lastAuth[u]

(***************************************************************************)
(* Properties of the delivery protocol's bookkeeping.                      *)
(***************************************************************************)
\* The message ids generated so far.
Generated == {<<n, u>> : n \in 1..nextMsg, u \in ClientUsers \cup {NoUser}}

\* The number of Offline Queue entries that carry messageId.
QueuedCopies(messageId) ==
  Cardinality({i \in DOMAIN offlineQueue : offlineQueue[i].payload.messageId = messageId})

\* C24: a messageId occurs at most once across the Pending Delivery map and
\* the Offline Queue together: a message is never pending and queued at
\* once and never queued twice, also when the immediate send throws or a
\* delivery check moves the message to the queue.
C24_PendingOrQueuedOnce ==
  \A messageId \in Generated :
    QueuedCopies(messageId) + (IF messageId \in DOMAIN pendingMessages THEN 1 ELSE 0) <= 1

\* C25: once message_delivered has arrived for a messageId the client never
\* transmits that message again, neither by a delivery-check resend nor by
\* a flush of the Offline Queue.
C25_NoTransmissionAfterReceipt ==
  [][\A i \in (Len(wire) + 1)..Len(wire') :
       wire'[i].type = "chat_message" => wire'[i].messageId \notin receipted]_vars

\* C26: a messageId gets at most one terminal notification: delivery-failed
\* and delivery-confirmed are never both emitted for it and neither is
\* emitted twice, whether the receipt is the router's own, the recipient's
\* forwarded one or one that arrives after the retry cap.  (receipted holds
\* an id once, however many message_delivered frames arrived for it.)
C26_OneTerminalNotification ==
  \A messageId \in Generated :
    Failures(messageId) + (IF messageId \in receipted THEN 1 ELSE 0) <= 1

(***************************************************************************)
(* Properties of disconnect() and of events of earlier transports.         *)
(***************************************************************************)
\* C27: from disconnect() until the application calls connect() again the
\* client opens no new transport and its status stays 'disconnected'; a
\* reconnect timer scheduled before the disconnect() opens none when it
\* fires.
C27_DisconnectStaysDisconnected ==
  [][(released /\ released') =>
       /\ \A s \in Sockets : phase[s] = "none" => phase'[s] = "none"
       /\ connectionStatus' = "disconnected"]_vars

\* The heartbeat timers that are set.
HeartbeatTimers ==
  SelectSeq(timers, LAMBDA t : t.kind \in {"sendHeartbeat", "heartbeatTimeout"})

\* The transport created last.
Newest == CHOOSE s \in Sockets : phase[s] # "none" /\ \A d \in Sockets : d > s => phase[d] = "none"

\* C28: a close or error event of a transport that is not the manager's
\* current transport leaves the current transport untouched: the socket
\* reference, the isConnecting flag, the status and the heartbeat timers
\* are unchanged and the current transport is not closed; so the transport
\* created last still sends its auth frame when it opens.
C28_StaleEventsLeaveCurrentTransport ==
  [][/\ \A s \in Sockets :
          (/\ socket # NoSocket
           /\ s # socket
           /\ SocketCloses(s) \/ \E err \in BOOLEAN : TransportLost(s, err))
          => /\ socket' = socket
             /\ phase'[socket] = phase[socket]
             /\ isConnecting' = isConnecting
             /\ connectionStatus' = connectionStatus
             /\ HeartbeatTimers' = HeartbeatTimers
     /\ \A s \in Sockets :
          (OnOpen(s) /\ s = Newest /\ userId # NoUser)
          => \E i \in (Len(wire) + 1)..Len(wire') :
               wire'[i].sock = s /\ wire'[i].type = "auth"]_vars

(***************************************************************************)
(* Properties of the order and the timing of transmissions.                *)
(***************************************************************************)
\* Frame i of the wire is the first transmission of its chat message.
FirstTransmission(i) ==
  /\ wire[i].type = "chat_message"
  /\ \A k \in 1..(i - 1) : wire[k].messageId # wire[i].messageId

\* C29: chat messages are first transmitted in the order of their
\* sendChatMessage calls (message ids are numbered in call order): no
\* message is first transmitted after a message submitted later, whether
\* it waited in the Offline Queue or not.
C29_FirstTransmissionsInCallOrder ==
  \A i, j \in DOMAIN wire :
    (i < j /\ FirstTransmission(i) /\ FirstTransmission(j))
      => wire[i].messageId[1] < wire[j].messageId[1]

\* C30: for every messageId at most one delivery-check timer is
\* outstanding at any time, the attempts counter of its Pending Delivery
\* entry is 1, 2 or 3, and two transmissions of the message are at least
\* 5 seconds apart.
C30_OneCheckTimerPerMessage ==
  \A messageId \in Generated :
    /\ Len(CheckTimers(messageId)) <= 1
    /\ messageId \in DOMAIN pendingMessages
         => pendingMessages[messageId].attempts \in 1..MaxAttempts
    /\ \A i \in DOMAIN Transmissions(messageId) :
         i > 1 => Transmissions(messageId)[i].at - Transmissions(messageId)[i - 1].at >= CheckDelay

(***************************************************************************)
(* Properties of the status and of the open handler.                       *)
(***************************************************************************)
\* C31: whenever the manager's current transport is open (its open handler
\* has run) the status is 'connected', after any sequence of connect,
\* disconnect, transport events and online/offline events.
C31_OpenMeansConnected ==
  SocketOpen(socket, phase) => connectionStatus = "connected"

(***************************************************************************)
(* Properties of the registry when a connection authenticates more than    *)
(* once (SpecReauth).                                                      *)
(***************************************************************************)
\* C32: after the close handler of a connection has run no registry entry
\* maps a user id to that connection, whatever auth frames the connection
\* sent during its life.
C32_ClosedConnectionUnregistered ==
  \A c \in Conns : readyState[c] = "closed" =>
    \A u \in Users : activeConnections[u] # c

(***************************************************************************)
(* Properties of the open handler and of auth_success.                     *)
(***************************************************************************)
\* C33: on every transport open the client resets the reconnect counter to
\* 0, sets the status to 'connected' and sends an auth frame with the
\* stored userId on that transport, and this auth frame is the first frame
\* the client sends on the transport.
C33_OpenSendsAuthFirst ==
  [][\A s \in Sockets : OnOpen(s) =>
       /\ reconnectAttempts' = 0
       /\ connectionStatus' = "connected"
       /\ \A i \in DOMAIN wire : wire[i].sock # s
       /\ Len(wire') = Len(wire) + 1
       /\ wire'[Len(wire')].sock = s
       /\ wire'[Len(wire')].type = "auth"
       /\ wire'[Len(wire')].payload.userId = userId
       /\ userId # NoUser]_vars

\* auth_success has arrived on transport s: the auth frame sent on s has
\* been answered.
AuthSucceeded(s) ==
  /\ \E i \in DOMAIN wire : wire[i].sock = s /\ wire[i].type = "auth"
  /\ s \notin authPending

IntervalTimers == SelectSeq(timers, LAMBDA t : t.kind = "sendHeartbeat")

\* C34: the heartbeat loop and the flush start only on auth_success: a
\* heartbeat goes out, and a queued entry is transmitted, only on a
\* transport on which auth_success has arrived, and each auth_success
\* leaves exactly one heartbeat interval timer armed.
C34_HeartbeatAndFlushAfterAuth ==
  [][/\ ((HeartbeatIntervalFires \/ \E s \in Sockets, k \in 0..MaxQueued : RecvAuthSuccess(s, k))
           /\ SocketOpen(socket, phase))
          => AuthSucceeded(socket)'
     /\ \A i \in (Len(wire) + 1)..Len(wire') :
          wire'[i].via = "processOfflineQueue" =>
            \E t \in Sockets : t = wire'[i].sock /\ AuthSucceeded(t)'
     /\ (\E s \in Sockets, k \in 0..MaxQueued : RecvAuthSuccess(s, k))
          => Len(IntervalTimers') = 1]_vars

(***************************************************************************)
(* Properties of the status 'error'.                                       *)
(***************************************************************************)
\* The handler that ran set the status to 'error'.
EntersError == \E i \in DOMAIN statusEvents' : statusEvents'[i] = "error"

\* C35: the client never remains in status 'error': a handler that enters
\* it (the 'error' event of a transport, or a connect() whose transport
\* cannot be created) leaves the status other than 'error' and has
\* scheduled a reconnect, or has set the status to 'disconnected' when no
\* user id is known.
C35_ErrorIsTransient ==
  [][EntersError =>
       /\ connectionStatus' # "error"
       /\ \/ Scheduled
          \/ userId' = NoUser /\ connectionStatus' = "disconnected"]_vars

(***************************************************************************)
(* Properties of the reconnect counter (SpecReconnect).                    *)
(***************************************************************************)
\* The step is the 'open' event of a transport.
Opens == \E s \in Sockets : phase[s] = "connecting" /\ phase'[s] = "open"

\* C36: the reconnect counter never exceeds 5 and returns to 0 only on a
\* transport open; once 5 reconnects in a row have been scheduled without
\* an open, the next close with a code other than 1000 schedules no
\* reconnect, leaves the counter at 5 and emits the reconnect-failed
\* notification exactly once.
C36_ReconnectCounterCapped ==
  /\ [](reconnectAttempts <= maxReconnectAttempts)
  /\ [][(reconnectAttempts # 0 /\ reconnectAttempts' = 0) => Opens]_vars
  /\ [][\A s \in Sockets :
          (Closes(s) /\ EventCode(s) # NormalClosure
             /\ reconnectAttempts = maxReconnectAttempts)
          => /\ ReconnectTimers(timers') = ReconnectTimers(timers)
             /\ reconnectAttempts' = maxReconnectAttempts
             /\ reconnectFailed' = 1]_vars

\* The transport of the fifth reconnect in a row has just closed: the
\* notification was dispatched and nothing is scheduled.
C36_Witness ==
  /\ reconnectAttempts = maxReconnectAttempts
  /\ reconnectFailed = 1
  /\ ReconnectTimers(timers) = <<>>
  /\ phase[6] = "closed"

(***************************************************************************)
(* Properties of a flush whose send throws (SpecThrow).                    *)
(***************************************************************************)
\* The messageIds of the entries of queue, in order.
Ids(queue) == [i \in DOMAIN queue |-> queue[i].payload.messageId]

\* C37: when the send of entry k throws during a flush, entry k goes back
\* to the front and the flush stops: the queue is then entries k, k+1, ...
\* in their original order (entry k with the timestamp of this attempt),
\* the entries before k are no longer queued and are the only ones the
\* flush transmitted.
C37_ThrowStopsFlush ==
  [][\A s \in Sockets, k \in 1..MaxQueued :
       (RecvAuthSuccess(s, k) /\ SocketOpen(socket, phase) /\ k <= Len(offlineQueue))
       => LET n == Len(offlineQueue)
          IN /\ Ids(offlineQueue') = Ids(SubSeq(offlineQueue, k, n))
             /\ SubSeq(offlineQueue', 2, n - k + 1) = SubSeq(offlineQueue, k + 1, n)
             /\ offlineQueue'[1] = [offlineQueue[k] EXCEPT !.payload.timestamp = now]
             /\ wire' = wire \o FlushFrames(SubSeq(offlineQueue, 1, k - 1))]_vars

\* Of two queued messages a flush on the open transport sent the first; the
\* send of the second threw and it is queued again, not pending.
C37_Witness ==
  /\ socket = 1 /\ phase[1] = "open"
  /\ 1 \notin authPending
  /\ Ids(offlineQueue) = << <<2, 1>> >>
  /\ <<2, 1>> \notin DOMAIN pendingMessages
  /\ Transmissions(<<2, 1>>) = <<>>
  /\ \E i \in DOMAIN wire :
       wire[i].sock = 1 /\ wire[i].via = "processOfflineQueue" /\ wire[i].messageId = <<1, 1>>

(***************************************************************************)
(* Properties of a delivery check without an open transport (SpecClient).  *)
(***************************************************************************)
\* C38: a delivery check that runs for a pending message with fewer than 3
\* attempts while the transport is not open appends the payload to the
\* Offline Queue, removes the Pending Delivery entry, transmits nothing,
\* reports nothing and sets no timer: no delivery check is left for the
\* message.
C38_CheckQueuesWithoutTransport ==
  [][\A messageId \in Generated :
       (/\ \E throws \in BOOLEAN : CheckTimerFires(throws)
        /\ timers[NextTimer].id = messageId
        /\ messageId \in DOMAIN pendingMessages
        /\ pendingMessages[messageId].attempts < MaxAttempts
        /\ ~SocketOpen(socket, phase))
       => /\ Len(offlineQueue') = Len(offlineQueue) + 1
          /\ SubSeq(offlineQueue', 1, Len(offlineQueue)) = offlineQueue
          /\ offlineQueue'[Len(offlineQueue')].payload = pendingMessages[messageId].payload
          /\ DOMAIN pendingMessages' = DOMAIN pendingMessages \ {messageId}
          /\ \A k \in DOMAIN pendingMessages' : pendingMessages'[k] = pendingMessages[k]
          /\ wire' = wire
          /\ events' = events
          /\ timers' = Remove(timers, NextTimer)
          /\ CheckTimers(messageId)' = <<>>]_vars

\* The transport dropped after the first transmission and at 5 s the check
\* has moved the message to the queue.
C38_Witness ==
  \E messageId \in TransmittedIds :
    /\ Len(Transmissions(messageId)) = 1
    /\ now = Transmissions(messageId)[1].at + CheckDelay
    /\ ~SocketOpen(socket, phase)
    /\ Queued(messageId)
    /\ messageId \notin DOMAIN pendingMessages
    /\ messageId \notin receipted
    /\ CheckTimers(messageId) = <<>>

(***************************************************************************)
(* Properties of frames that cannot be parsed (SpecParse).                 *)
(***************************************************************************)
\* C39: an inbound frame that cannot be parsed makes the client dispatch
\* one error notification and nothing else: the handler completes, the
\* transports, the status, the Pending Delivery map, the Offline Queue and
\* the timers are unchanged, and nothing is sent.
C39_UnparseableFrameOnlyNotifies ==
  [][\A s \in Sockets, data \in Unparseable :
       RecvUnparseable(s, data) =>
         /\ errorEvents' = 1
         /\ readEvents' = 0
         /\ statusEvents' = <<>> /\ reconnectFailed' = 0 /\ events' = events
         /\ receipted' = receipted
         /\ phase' = phase /\ socket' = socket
         /\ connectionStatus' = connectionStatus /\ isConnecting' = isConnecting
         /\ pendingMessages' = pendingMessages
         /\ offlineQueue' = offlineQueue /\ localStorage' = localStorage
         /\ timers' = timers
         /\ wire' = wire]_vars

\* Text that is not JSON has just arrived on the open transport while a
\* message was pending and the heartbeat was running.
C39_Witness ==
  /\ errorEvents = 1
  /\ statusEvents = <<>>
  /\ SocketOpen(socket, phase)
  /\ connectionStatus = "connected"
  /\ DOMAIN pendingMessages # {}
  /\ heartbeatInterval /\ heartbeatTimeout

(***************************************************************************)
(* Properties of read notices (SpecRead).                                  *)
(***************************************************************************)
\* C40: a mark_read frame with a sender id whose registry entry is an open
\* connection makes the router push a message_read frame to that
\* connection, and the sender's client, on receiving the frame, dispatches
\* a message-read notification.
C40_MarkReadNotifiesSender ==
  /\ [][\A r \in reading :
          (/\ MarkMessagesAsReadResolves(r)
           /\ r.data.senderId # NoUser
           /\ activeConnections[r.data.senderId] # NoConn
           /\ readyState[activeConnections[r.data.senderId]] = "open")
          => LET c == activeConnections[r.data.senderId]
             IN /\ Len(sent'[c]) = Len(sent[c]) + 1
                /\ sent'[c][Len(sent'[c])].type = "message_read"]_vars
  /\ [][\A i \in DOMAIN sent[ConnOf(1)] :
          RecvMessageRead(1, sent[ConnOf(1)][i]) => readEvents' = 1]_vars

====
